---- MODULE Spec2Model ----
(***************************************************************************)
(* A model of the Zork reference extractors (src/reference/extractors):    *)
(* the melee-table block tokenizer of monster_extractor.py, the exit/door  *)
(* resolver and the identifier normaliser of scene_extractor.py, and the   *)
(* object parser, flag resolver and classifier of item_extractor.py.       *)
(*                                                                         *)
(* Python strings are TLA+ strings; TLC evaluates Len, \o and SubSeq on    *)
(* them, so every string function below is computed character by          *)
(* character as the Python built-in computes it.  Python's None is the     *)
(* string None, which holds a character ("<") that no input of the model   *)
(* contains.  A Python dict is a sequence of [k, v] entries in insertion   *)
(* order; assigning to a key that is present replaces the value in place.  *)
(***************************************************************************)
EXTENDS Integers, Sequences, FiniteSets, TLC

VARIABLES
    \* extract_melee_messages (monster_extractor.py): the splitting loop
    melee_content, i, in_block, current_block, blocks, tok_pc,
    \* SceneExtractor (scene_extractor.py): the exits of the JSON source, the
    \* declarations matched in the MDL source, the two tables __init__ parses
    \* from them, and the loop of build_exits
    data_exits, cexit_matches, nexit_matches, door_object_matches, door_macro_matches,
    conditional_exits, door_objects, exits_by_room, exit_idx, exits_pc,
    \* the record loops: the matches of object_pattern and self.objects
    \* (ItemExtractor), data['rooms'] (SceneExtractor), the dictionaries and
    \* lists that extract_items, extract_scenes and extract_monsters fill
    object_matches, objects, data_rooms, rec_idx, item_files, all_items,
    scene_files, all_scenes, monsters, rec_pc,
    \* determine_item_type and convert_size applied to one object
    cl_flags, cl_properties, cl_type, cl_size, cl_pc,
    \* the three derivations of an id from a key, called on one key: the ids
    \* that the calls made so far returned
    norm_key, scene_ids, zork_ids, item_ids, norm_pc,
    \* independent runs of the item extractor on one source text: the text's
    \* object definitions and the item_files that each run so far returned
    run_matches, run_files, run_pc,
    \* one run of the main() of an extractor on a source text that can or
    \* cannot be read: the inputs of the run and the files it has written
    src_readable, src_matches, src_rooms, src_exits, src_cexits, src_melee,
    src_written, src_pc,
    \* extract_melee_messages after its tokenizer: the blocks, the index of the
    \* loop over them, the messages dict and the position in the function
    mel_blocks, mel_idx, mel_messages, mel_pc,
    \* the index that write_files of the monster extractor writes
    monster_index

tokVars == <<melee_content, i, in_block, current_block, blocks, tok_pc>>
exitVars == <<data_exits, cexit_matches, nexit_matches, door_object_matches,
              door_macro_matches, conditional_exits, door_objects, exits_by_room,
              exit_idx, exits_pc>>
recVars == <<object_matches, objects, data_rooms, rec_idx, item_files, all_items,
             scene_files, all_scenes, monsters, rec_pc>>
clVars == <<cl_flags, cl_properties, cl_type, cl_size, cl_pc>>
normVars == <<norm_key, scene_ids, zork_ids, item_ids, norm_pc>>
runVars == <<run_matches, run_files, run_pc>>
srcVars == <<src_readable, src_matches, src_rooms, src_exits, src_cexits, src_melee,
             src_written, src_pc>>
melVars == <<mel_blocks, mel_idx, mel_messages, mel_pc>>
idxVars == <<monster_index>>
vars == <<tokVars, exitVars, recVars, clVars, normVars, runVars, srcVars, melVars, idxVars>>

\* a component that a specification does not run
IdleTok ==
    /\ melee_content = "" /\ i = 0 /\ in_block = FALSE /\ current_block = ""
    /\ blocks = <<>> /\ tok_pc = "idle"
IdleExits ==
    /\ data_exits = <<>> /\ cexit_matches = <<>> /\ nexit_matches = <<>>
    /\ door_object_matches = <<>> /\ door_macro_matches = <<>>
    /\ conditional_exits = <<>> /\ door_objects = <<>> /\ exits_by_room = <<>>
    /\ exit_idx = 0 /\ exits_pc = "idle"
IdleRecords ==
    /\ object_matches = <<>> /\ objects = <<>> /\ data_rooms = <<>> /\ rec_idx = 0
    /\ item_files = <<>> /\ all_items = <<>> /\ scene_files = <<>>
    /\ all_scenes = <<>> /\ monsters = <<>> /\ rec_pc = "idle"
IdleClassify ==
    /\ cl_flags = <<>> /\ cl_properties = <<>> /\ cl_type = "" /\ cl_size = ""
    /\ cl_pc = "idle"
IdleNormalize ==
    /\ norm_key = "" /\ scene_ids = <<>> /\ zork_ids = <<>> /\ item_ids = <<>>
    /\ norm_pc = "idle"
IdleRuns ==
    /\ run_matches = <<>> /\ run_files = <<>> /\ run_pc = "idle"
IdleMelee ==
    /\ mel_blocks = <<>> /\ mel_idx = 0 /\ mel_messages = <<>> /\ mel_pc = "idle"
IdleIndex == monster_index = <<>>
IdleSources ==
    /\ src_readable = TRUE /\ src_matches = <<>> /\ src_rooms = <<>> /\ src_exits = <<>>
    /\ src_cexits = <<>> /\ src_melee = <<>> /\ src_written = <<>> /\ src_pc = "idle"

None == "<None>"

-----------------------------------------------------------------------------
(* Python string built-ins *)

Min(a, b) == IF a < b THEN a ELSE b

\* s[a:b] for 0 <= a, with Python's clamping of b to len(s)
Slice(s, a, b) == SubSeq(s, a + 1, Min(b, Len(s)))

\* s[k], 0-based
CharAt(s, k) == SubSeq(s, k + 1, k + 1)

startswith(s, p) == Len(p) <= Len(s) /\ SubSeq(s, 1, Len(p)) = p

\* p in s
contains(s, p) == \E k \in 0..(Len(s) - Len(p)) : Slice(s, k, k + Len(p)) = p

UpperLetters == "ABCDEFGHIJKLMNOPQRSTUVWXYZ"
LowerLetters == "abcdefghijklmnopqrstuvwxyz"

\* the function that maps each letter of `from` to the letter of `to` at its place
LetterMap(from, to) ==
    [c \in {SubSeq(from, k, k) : k \in 1..Len(from)} |->
        SubSeq(to, CHOOSE k \in 1..Len(from) : SubSeq(from, k, k) = c,
                   CHOOSE k \in 1..Len(from) : SubSeq(from, k, k) = c)]

ToLower == LetterMap(UpperLetters, LowerLetters)
ToUpper == LetterMap(LowerLetters, UpperLetters)

RECURSIVE MapString(_, _)
MapString(s, map) ==
    IF s = "" THEN ""
    ELSE (IF Head(s) \in DOMAIN map THEN map[Head(s)] ELSE Head(s)) \o MapString(Tail(s), map)

\* str.lower and str.upper
lower(s) == MapString(s, ToLower)
upper(s) == MapString(s, ToUpper)

\* s.replace(old, new) for a non-empty old: the non-overlapping occurrences of
\* old, found from the left, are replaced
RECURSIVE replace(_, _, _)
replace(s, old, new) ==
    IF Len(s) < Len(old) THEN s
    ELSE IF SubSeq(s, 1, Len(old)) = old
         THEN new \o replace(SubSeq(s, Len(old) + 1, Len(s)), old, new)
         ELSE Head(s) \o replace(Tail(s), old, new)

Whitespace == {" ", "\n", "\t"}

RECURSIVE lstrip(_)
lstrip(s) == IF s # "" /\ Head(s) \in Whitespace THEN lstrip(Tail(s)) ELSE s

RECURSIVE rstrip(_)
rstrip(s) ==
    IF s # "" /\ SubSeq(s, Len(s), Len(s)) \in Whitespace
    THEN rstrip(SubSeq(s, 1, Len(s) - 1)) ELSE s

\* str.strip()
strip(s) == rstrip(lstrip(s))

\* s.split(sep) for a one-character sep: the pieces between the separators,
\* empty pieces included
RECURSIVE SplitFrom(_, _, _)
SplitFrom(s, sep, cur) ==
    IF s = "" THEN <<cur>>
    ELSE IF Head(s) = sep THEN <<cur>> \o SplitFrom(Tail(s), sep, "")
    ELSE SplitFrom(Tail(s), sep, cur \o Head(s))

split(s, sep) == SplitFrom(s, sep, "")

-----------------------------------------------------------------------------
(* Bounds and inputs of the tokenizer *)

MaxRaw == 4
MaxDepth == 1

TokChars == {"!", "[", "]", "a"}

RECURSIVE StringsUpTo(_, _)
StringsUpTo(chars, n) ==
    IF n = 0 THEN {""}
    ELSE LET shorter == StringsUpTo(chars, n - 1)
         IN  shorter \cup {s \o c : s \in shorter, c \in chars}

Closers == {"!]", "]]"}
Fills == {"", "a"}

\* block contents with balanced nested ![ ... !] pairs, nesting depth <= d
RECURSIVE Contents(_)
Contents(d) ==
    IF d <= 0 THEN Fills
    ELSE Fills \cup {p \o "![" \o c \o "!]" \o q :
                        p \in Fills, c \in Contents(d - 1), q \in Fills}

\* three top-level blocks with the given contents, closed by the spelling cl
ThreeBlocks(c1, c2, c3, cl) ==
    "![" \o c1 \o cl \o "![" \o c2 \o cl \o "![" \o c3 \o cl

\* inputs of exactly three top-level blocks: one block nests up to MaxDepth
\* deep, the other two up to MaxDepth - 1
ThreeBlockInputs ==
    LET deep == Contents(MaxDepth)
        flat == Contents(MaxDepth - 1)
    IN  UNION {{ThreeBlocks(d, a, b, cl), ThreeBlocks(a, d, b, cl), ThreeBlocks(a, b, d, cl)} :
                  <<d, a, b, cl>> \in deep \X flat \X flat \X Closers}

\* the message elements of a sub-block, with the messages they hold
MessageElements == {[text |-> "[\"m\"]", msgs |-> <<"m">>],
                    [text |-> "[\"m\"] [\"n\"]", msgs |-> <<"m", "n">>]}

\* one sub-block of message elements, closed by either spelling, directly
\* after the last element or after a blank
MessageBlockInputs ==
    {"![" \o e.text \o sep \o cl : e \in MessageElements, sep \in {"", " "}, cl \in Closers}

TokInputs == StringsUpTo(TokChars, MaxRaw) \cup ThreeBlockInputs \cup MessageBlockInputs

-----------------------------------------------------------------------------
(* extract_melee_messages: the block-splitting loop, one action per branch *)

At2(s, k) == IF k < Len(s) - 1 THEN Slice(s, k, k + 2) ELSE ""

InitTok ==
    /\ melee_content \in TokInputs
    /\ i = 0
    /\ in_block = FALSE
    /\ current_block = ""
    /\ blocks = <<>>
    /\ tok_pc = "loop"
    /\ IdleExits /\ IdleRecords /\ IdleClassify /\ IdleNormalize /\ IdleRuns /\ IdleSources /\ IdleMelee /\ IdleIndex

\* line 156: the two characters at i are the open marker
TokOpen ==
    /\ tok_pc = "loop"
    /\ i < Len(melee_content)
    /\ At2(melee_content, i) = "!["
    /\ blocks' = IF in_block /\ current_block # "" THEN Append(blocks, current_block) ELSE blocks
    /\ current_block' = IF in_block /\ current_block # "" THEN "" ELSE current_block
    /\ in_block' = TRUE
    /\ i' = i + 2
    /\ UNCHANGED <<melee_content, tok_pc, exitVars, recVars, clVars, normVars, runVars, srcVars, melVars, idxVars>>

\* lines 163 and 168: in a block, the two characters at i are a close marker
TokClose ==
    /\ tok_pc = "loop"
    /\ i < Len(melee_content)
    /\ At2(melee_content, i) # "!["
    /\ in_block
    /\ \/ At2(melee_content, i) = "!]"
       \/ At2(melee_content, i) = "]]"
    /\ blocks' = Append(blocks, current_block)
    /\ current_block' = ""
    /\ in_block' = FALSE
    /\ i' = i + 2
    /\ UNCHANGED <<melee_content, tok_pc, exitVars, recVars, clVars, normVars, runVars, srcVars, melVars, idxVars>>

\* TokAccumulate with the index advanced by the width of a marker
TokAccumulate_ByTwo ==
    /\ tok_pc = "loop"
    /\ i < Len(melee_content)
    /\ At2(melee_content, i) \notin {"![", "!]", "]]"}
    /\ in_block
    /\ current_block' = current_block \o CharAt(melee_content, i)
    /\ i' = i + 2
    /\ UNCHANGED <<melee_content, in_block, blocks, tok_pc, exitVars, recVars, clVars, normVars, runVars, srcVars, melVars, idxVars>>

\* line 174: in a block, any other character is accumulated
TokAccumulate ==
    /\ tok_pc = "loop"
    /\ i < Len(melee_content)
    /\ At2(melee_content, i) \notin {"![", "!]", "]]"}
    /\ in_block
    /\ current_block' = current_block \o CharAt(melee_content, i)
    /\ i' = i + 1
    /\ UNCHANGED <<melee_content, in_block, blocks, tok_pc, exitVars, recVars, clVars, normVars, runVars, srcVars, melVars, idxVars>>

\* line 177: outside a block, any character that opens none is skipped
TokSkip ==
    /\ tok_pc = "loop"
    /\ i < Len(melee_content)
    /\ At2(melee_content, i) # "!["
    /\ ~in_block
    /\ i' = i + 1
    /\ UNCHANGED <<melee_content, in_block, current_block, blocks, tok_pc, exitVars, recVars, clVars, normVars, runVars, srcVars, melVars, idxVars>>

\* the end of the loop without the test of lines 181-182
TokFlush_Drop ==
    /\ tok_pc = "loop"
    /\ i >= Len(melee_content)
    /\ tok_pc' = "done"
    /\ UNCHANGED <<melee_content, i, in_block, current_block, blocks, exitVars, recVars, clVars, normVars, runVars, srcVars, melVars, idxVars>>

\* lines 180-182: the loop has ended; add the last block if any
TokFlush ==
    /\ tok_pc = "loop"
    /\ i >= Len(melee_content)
    /\ blocks' = IF in_block /\ current_block # "" THEN Append(blocks, current_block) ELSE blocks
    /\ tok_pc' = "done"
    /\ UNCHANGED <<melee_content, i, in_block, current_block, exitVars, recVars, clVars, normVars, runVars, srcVars, melVars, idxVars>>

\* lines 148-182 as one function of the content: the blocks and the state
\* of the scanner after the loop that starts at index k
RECURSIVE split_blocks(_, _, _, _, _)
split_blocks(s, k, inb, cur, out) ==
    IF k >= Len(s)
    THEN [blocks |-> IF inb /\ cur # "" THEN Append(out, cur) ELSE out,
          i |-> k, in_block |-> inb, current_block |-> cur]
    ELSE IF At2(s, k) = "!["
    THEN split_blocks(s, k + 2, TRUE,
                      IF inb /\ cur # "" THEN "" ELSE cur,
                      IF inb /\ cur # "" THEN Append(out, cur) ELSE out)
    ELSE IF inb
    THEN IF At2(s, k) \in {"!]", "]]"}
         THEN split_blocks(s, k + 2, FALSE, "", Append(out, cur))
         ELSE split_blocks(s, k + 1, TRUE, cur \o CharAt(s, k), out)
    ELSE split_blocks(s, k + 1, inb, cur, out)

NextTok == TokOpen \/ TokClose \/ TokAccumulate \/ TokSkip \/ TokFlush

SpecTok == InitTok /\ [][NextTok]_vars

\* the loop is sequential code: while a step is possible, one is taken
SpecTokFair == SpecTok /\ WF_vars(NextTok)

-----------------------------------------------------------------------------
(* Python dicts: sequences of [k, v] entries in insertion order *)

DictKeys(d) == {d[n].k : n \in 1..Len(d)}

DictHas(d, key) == \E n \in 1..Len(d) : d[n].k = key

DictGet(d, key) == d[CHOOSE n \in 1..Len(d) : d[n].k = key].v

\* d.get(key, default)
DictGetOr(d, key, default) == IF DictHas(d, key) THEN DictGet(d, key) ELSE default

\* an assignment that keeps the entry already stored under the key
DictPut_AppendOnly(d, key, value) == Append(d, [k |-> key, v |-> value])

\* d[key] = value
DictPut(d, key, value) ==
    IF DictHas(d, key)
    THEN [n \in 1..Len(d) |-> IF d[n].k = key THEN [k |-> key, v |-> value] ELSE d[n]]
    ELSE Append(d, [k |-> key, v |-> value])

\* s.strip('"')
RECURSIVE strip_quotes(_)
strip_quotes(s) ==
    IF s # "" /\ Head(s) = "\"" THEN strip_quotes(Tail(s))
    ELSE IF s # "" /\ SubSeq(s, Len(s), Len(s)) = "\"" THEN strip_quotes(SubSeq(s, 1, Len(s) - 1))
    ELSE s

-----------------------------------------------------------------------------
(* SceneExtractor: the static tables of __init__ *)

room_id_conversions == <<
    [k |-> "WHOUS", v |-> "west_of_house"],
    [k |-> "NHOUS", v |-> "north_of_house"],
    [k |-> "SHOUS", v |-> "south_of_house"],
    [k |-> "EHOUS", v |-> "behind_house"],
    [k |-> "LROOM", v |-> "living_room"],
    [k |-> "KITCH", v |-> "kitchen"],
    [k |-> "ATTIC", v |-> "attic"],
    [k |-> "CELLA", v |-> "cellar"],
    [k |-> "TWELL", v |-> "treasure_well"],
    [k |-> "FORE1", v |-> "forest_1"],
    [k |-> "FORE2", v |-> "forest_2"],
    [k |-> "FORE3", v |-> "forest_3"],
    [k |-> "FORE4", v |-> "forest_4"],
    [k |-> "PATH", v |-> "forest_path"],
    [k |-> "CLEAR", v |-> "clearing"],
    [k |-> "BEACH", v |-> "beach"],
    [k |-> "RESER", v |-> "reservoir"],
    [k |-> "DAM", v |-> "dam"],
    [k |-> "EGYPT", v |-> "egyptian_room"],
    [k |-> "SANDY", v |-> "sandy_beach"],
    [k |-> "ROCKY", v |-> "rocky_ledge"],
    [k |-> "OROOM", v |-> "round_room"],
    [k |-> "CAROU", v |-> "carousel_room"],
    [k |-> "MTROL", v |-> "troll_room"],
    [k |-> "TREAS", v |-> "treasure_room"],
    [k |-> "WINDM", v |-> "windmill"],
    [k |-> "MGRAT", v |-> "grating_room"],
    [k |-> "MTREE", v |-> "up_tree"],
    [k |-> "FALLS", v |-> "top_of_falls"],
    [k |-> "MTOP", v |-> "mountain_top"],
    [k |-> "DOME", v |-> "temple_dome"],
    [k |-> "TORCH", v |-> "torch_room"],
    [k |-> "TEMP", v |-> "temple"],
    [k |-> "ALTAR", v |-> "altar"],
    [k |-> "VOLCA", v |-> "volcano"],
    [k |-> "HBARR", v |-> "barrow"],
    [k |-> "NCELL", v |-> "cell"],
    [k |-> "NIRVA", v |-> "treasury_of_zork"],
    [k |-> "CYCLO", v |-> "cyclops_room"],
    [k |-> "BLROO", v |-> "strange_passage"]
>>

direction_mapping == <<
    [k |-> "NORTH", v |-> "north"],
    [k |-> "SOUTH", v |-> "south"],
    [k |-> "EAST", v |-> "east"],
    [k |-> "WEST", v |-> "west"],
    [k |-> "UP", v |-> "up"],
    [k |-> "DOWN", v |-> "down"],
    [k |-> "ENTER", v |-> "in"],
    [k |-> "EXIT", v |-> "out"],
    [k |-> "NORTHEAST", v |-> "northeast"],
    [k |-> "NORTHWEST", v |-> "northwest"],
    [k |-> "SOUTHEAST", v |-> "southeast"],
    [k |-> "SOUTHWEST", v |-> "southwest"]
>>

\* the room-and-direction fallbacks of get_blocked_exit_message
blocked_messages == <<
    [k |-> "WHOUS", v |-> <<
        [k |-> "east", v |-> "The front door is boarded and you can't remove the boards."]>>],
    [k |-> "NHOUS", v |-> <<
        [k |-> "south", v |-> "The windows are all barred."],
        [k |-> "north", v |-> "You can't go that way."]>>],
    [k |-> "SHOUS", v |-> <<
        [k |-> "north", v |-> "The windows are all barred."],
        [k |-> "south", v |-> "You can't go that way."]>>]
>>

\* convert_key_to_id without the lookup in room_id_conversions
convert_key_to_id_NoTable(key) ==
    IF startswith(key, "MAZE") \/ startswith(key, "MAZ")
    THEN "maze_" \o replace(replace(key, "MAZE", ""), "MAZ", "")
    ELSE IF startswith(key, "DEAD")
    THEN "dead_end_" \o replace(key, "DEAD", "")
    ELSE replace(replace(lower(key), " ", "_"), "-", "_")

\* convert_key_to_id whose fallback leaves the hyphens
convert_key_to_id_KeepHyphens(key) ==
    IF startswith(key, "MAZE") \/ startswith(key, "MAZ")
    THEN "maze_" \o replace(replace(key, "MAZE", ""), "MAZ", "")
    ELSE IF startswith(key, "DEAD")
    THEN "dead_end_" \o replace(key, "DEAD", "")
    ELSE DictGetOr(room_id_conversions, key, replace(lower(key), " ", "_"))

\* lines 119-132
convert_key_to_id(key) ==
    IF startswith(key, "MAZE") \/ startswith(key, "MAZ")
    THEN "maze_" \o replace(replace(key, "MAZE", ""), "MAZ", "")
    ELSE IF startswith(key, "DEAD")
    THEN "dead_end_" \o replace(key, "DEAD", "")
    ELSE DictGetOr(room_id_conversions, key,
                   replace(replace(lower(key), " ", "_"), "-", "_"))

convert_direction(direction) == DictGetOr(direction_mapping, direction, lower(direction))

-----------------------------------------------------------------------------
(* SceneExtractor.parse_conditional_exits and parse_door_objects.  The     *)
(* regular expressions are not modelled: their matches, in source order,   *)
(* are the input (cexit_matches, nexit_matches, door_object_matches,       *)
(* door_macro_matches), each match a record of its groups.                 *)

CexitEntry(d, m) ==
    DictPut(d, m.flag, [destination |-> m.destination,
                        failureMessage |-> m.message,
                        condition |-> m.flag])

NexitEntry(d, m) ==
    DictPut(d, "NEXIT_" \o m.direction, [destination |-> None,
                                         failureMessage |-> m.message,
                                         blocked |-> TRUE,
                                         direction |-> m.direction])

\* the two loops over the matches, in source order
RECURSIVE CexitLoop(_, _)
CexitLoop(d, matches) ==
    IF matches = <<>> THEN d ELSE CexitLoop(CexitEntry(d, Head(matches)), Tail(matches))

RECURSIVE NexitLoop(_, _)
NexitLoop(d, matches) ==
    IF matches = <<>> THEN d ELSE NexitLoop(NexitEntry(d, Head(matches)), Tail(matches))

parse_conditional_exits(cexits, nexits) == NexitLoop(CexitLoop(<<>>, cexits), nexits)

\* [name.strip().strip('"') for name in pieces if name.strip()]
RECURSIVE StrippedNonBlank(_)
StrippedNonBlank(pieces) ==
    IF pieces = <<>> THEN <<>>
    ELSE (IF strip(Head(pieces)) # "" THEN <<strip_quotes(strip(Head(pieces)))>> ELSE <<>>)
            \o StrippedNonBlank(Tail(pieces))

ParseNames(names_str) == StrippedNonBlank(split(names_str, "\""))

\* re.search(r'"([^"]*)"', definition): the text between the first two quotes
HasQuoted(definition) == Len(split(definition, "\"")) >= 3
FirstQuoted(definition) == split(definition, "\"")[2]

DoorObjectEntry(d, m) ==
    IF ~contains(m.definition, "DOORBIT") \/ ParseNames(m.names_str) = <<>> THEN d
    ELSE LET names == ParseNames(m.names_str)
             primary_name == lower(names[1])
         IN  DictPut(d, primary_name,
                     [names |-> names,
                      description |-> IF HasQuoted(m.definition)
                                      THEN FirstQuoted(m.definition)
                                      ELSE primary_name \o " door",
                      type |-> "door",
                      openable |-> TRUE,
                      locked |-> contains(upper(m.definition), "LOCKED")])

\* rec[field] = value on a dict held as a record
SetField(rec, field, value) ==
    [f \in DOMAIN rec \cup {field} |-> IF f = field THEN value ELSE rec[f]]

DoorMacroEntry(d, m) ==
    LET door_name == lower(m.name)
        d1 == IF DictHas(d, door_name) THEN d
              ELSE DictPut(d, door_name, [names |-> <<door_name>>,
                                          description |-> door_name,
                                          type |-> "door",
                                          openable |-> TRUE])
        d2 == DictPut(d1, door_name,
                      SetField(DictGet(d1, door_name), "connects", <<m.room1, m.room2>>))
    IN  IF m.message # None
        THEN DictPut(d2, door_name,
                     SetField(DictGet(d2, door_name), "failureMessage", m.message))
        ELSE d2

RECURSIVE DoorObjectLoop(_, _)
DoorObjectLoop(d, matches) ==
    IF matches = <<>> THEN d
    ELSE DoorObjectLoop(DoorObjectEntry(d, Head(matches)), Tail(matches))

RECURSIVE DoorMacroLoop(_, _)
DoorMacroLoop(d, matches) ==
    IF matches = <<>> THEN d
    ELSE DoorMacroLoop(DoorMacroEntry(d, Head(matches)), Tail(matches))

parse_door_objects(object_ms, macros) == DoorMacroLoop(DoorObjectLoop(<<>>, object_ms), macros)

-----------------------------------------------------------------------------
(* SceneExtractor.check_conditional_exit, get_blocked_exit_message and     *)
(* build_exits.  An entry of exits_by_room[source] is a dict, held as a    *)
(* record of its keys, or a plain string id, held as the record [str].     *)

NoneObj == [none |-> TRUE]

Elems(seq) == {seq[n] : n \in 1..Len(seq)}

\* line 361: this door connects the two rooms
DoorMatches(door_data, source, target) ==
    /\ "connects" \in DOMAIN door_data
    /\ source \in Elems(door_data.connects)
    /\ target \in Elems(door_data.connects)

DoorExit(door_name, door_data, direction, target) ==
    [to |-> convert_key_to_id(target),
     description |-> "You see " \o door_data.description \o " " \o direction \o ".",
     condition |-> "door_" \o door_name \o "_open",
     locked |-> IF "locked" \in DOMAIN door_data THEN door_data.locked ELSE FALSE,
     keyId |-> IF "keyId" \in DOMAIN door_data THEN door_data.keyId ELSE None,
     failureMessage |-> IF "failureMessage" \in DOMAIN door_data
                        THEN door_data.failureMessage
                        ELSE "The " \o door_name \o " is closed."]

FlagExit(flag, exit_data, target) ==
    [to |-> convert_key_to_id(target),
     condition |-> replace(lower(flag), "-", "_"),
     failureMessage |-> exit_data.failureMessage]

\* check_conditional_exit with the loop over conditional_exits run first
check_conditional_exit_FlagFirst(doors, cexits, source, direction, target) ==
    IF \E n \in 1..Len(cexits) : cexits[n].v.destination = target
    THEN LET n == CHOOSE m \in 1..Len(cexits) :
                      /\ cexits[m].v.destination = target
                      /\ \A l \in 1..(m - 1) : cexits[l].v.destination # target
         IN  FlagExit(cexits[n].k, cexits[n].v, target)
    ELSE IF \E n \in 1..Len(doors) : DoorMatches(doors[n].v, source, target)
    THEN LET n == CHOOSE m \in 1..Len(doors) :
                      /\ DoorMatches(doors[m].v, source, target)
                      /\ \A l \in 1..(m - 1) : ~DoorMatches(doors[l].v, source, target)
         IN  DoorExit(doors[n].k, doors[n].v, direction, target)
    ELSE NoneObj

\* the loops return at the first entry, in the table's order, that matches
check_conditional_exit(doors, cexits, source, direction, target) ==
    IF \E n \in 1..Len(doors) : DoorMatches(doors[n].v, source, target)
    THEN LET n == CHOOSE m \in 1..Len(doors) :
                      /\ DoorMatches(doors[m].v, source, target)
                      /\ \A l \in 1..(m - 1) : ~DoorMatches(doors[l].v, source, target)
         IN  DoorExit(doors[n].k, doors[n].v, direction, target)
    ELSE IF \E n \in 1..Len(cexits) : cexits[n].v.destination = target
    THEN LET n == CHOOSE m \in 1..Len(cexits) :
                      /\ cexits[m].v.destination = target
                      /\ \A l \in 1..(m - 1) : cexits[l].v.destination # target
         IN  FlagExit(cexits[n].k, cexits[n].v, target)
    ELSE NoneObj

get_blocked_exit_message(cexits, source, direction) ==
    LET nexit_key == "NEXIT_" \o upper(direction)
    IN  IF DictHas(cexits, nexit_key) THEN DictGet(cexits, nexit_key).failureMessage
        ELSE IF DictHas(blocked_messages, source)
                /\ DictHas(DictGet(blocked_messages, source), direction)
        THEN DictGet(DictGet(blocked_messages, source), direction)
        ELSE "You can't go " \o direction \o " from here."

BlockedExit(cexits, source, direction) ==
    [to |-> None,
     blocked |-> TRUE,
     failureMessage |-> get_blocked_exit_message(cexits, source, direction)]

\* ExitEntry without the NoExit test of line 337
ExitEntry_NoSentinelTest(doors, cexits, source, direction, target) ==
    IF check_conditional_exit(doors, cexits, source, direction, target) # NoneObj
    THEN check_conditional_exit(doors, cexits, source, direction, target)
    ELSE [str |-> convert_key_to_id(target)]

\* lines 336-351: the entry build_exits stores for one exit of the source data
ExitEntry(doors, cexits, source, direction, target) ==
    IF target = "NoExit" THEN BlockedExit(cexits, source, direction)
    ELSE IF check_conditional_exit(doors, cexits, source, direction, target) # NoneObj
    THEN check_conditional_exit(doors, cexits, source, direction, target)
    ELSE [str |-> convert_key_to_id(target)]

\* exits_by_room[source][direction] = entry, creating exits_by_room[source]
PutExit(by_room, source, direction, entry) ==
    DictPut(by_room, source, DictPut(DictGetOr(by_room, source, <<>>), direction, entry))

-----------------------------------------------------------------------------
(* Bounds and inputs of the exit resolver *)

MaxExits == 2
MaxDoorMacros == 2

RECURSIVE SeqsUpTo(_, _)
SeqsUpTo(S, n) ==
    IF n = 0 THEN {<<>>}
    ELSE LET shorter == SeqsUpTo(S, n - 1)
         IN  shorter \cup {Append(q, x) : q \in shorter, x \in S}

ExitChoices == [source : {"NHOUS"}, dir : {"NORTH", "ENTER"}, target : {"KITCH", "NoExit"}]
               \cup {[source |-> "KITCH", dir |-> "NORTH", target |-> "NHOUS"]}

DoorMacroChoices == {
    [name |-> "DOOR", room1 |-> "NHOUS", room2 |-> "KITCH", message |-> None],
    [name |-> "DOOR", room1 |-> "KITCH", room2 |-> "NHOUS", message |-> "The door is locked."],
    [name |-> "GRATE", room1 |-> "NHOUS", room2 |-> "KITCH", message |-> None]}

CexitChoices == {[flag |-> "TROLL-FLAG", destination |-> "KITCH",
                  message |-> "The troll fends you off."]}

\* two CEXIT declarations of one flag name with different destinations
SameFlagCexits == <<[flag |-> "TROLL-FLAG", destination |-> "KITCH",
                     message |-> "The troll fends you off."],
                    [flag |-> "TROLL-FLAG", destination |-> "NHOUS",
                     message |-> "The troll blocks the way back."]>>

CexitInputs == SeqsUpTo(CexitChoices, 1) \cup {SameFlagCexits}

NexitChoices == [direction : {"NORTH", "ENTER"}, message : {"The windows are all barred."}]

DoorObjectChoices == {[names_str |-> "\"DOOR\" \"TRAPD\"",
                       definition |-> "\"wooden door\" <+ ,OVISON ,DOORBIT> LOCKED"]}

InitExits ==
    /\ data_exits \in SeqsUpTo(ExitChoices, MaxExits)
    /\ cexit_matches \in CexitInputs
    /\ nexit_matches \in SeqsUpTo(NexitChoices, 1)
    /\ door_object_matches \in SeqsUpTo(DoorObjectChoices, 1)
    /\ door_macro_matches \in SeqsUpTo(DoorMacroChoices, MaxDoorMacros)
    /\ conditional_exits = <<>>
    /\ door_objects = <<>>
    /\ exits_by_room = <<>>
    /\ exit_idx = 0
    /\ exits_pc = "init"
    /\ IdleTok /\ IdleRecords /\ IdleClassify /\ IdleNormalize /\ IdleRuns /\ IdleSources /\ IdleMelee /\ IdleIndex

\* __init__, lines 21-22: the two tables are parsed from the MDL source
SceneInit ==
    /\ exits_pc = "init"
    /\ conditional_exits' = parse_conditional_exits(cexit_matches, nexit_matches)
    /\ door_objects' = parse_door_objects(door_object_matches, door_macro_matches)
    /\ exits_pc' = "build"
    /\ UNCHANGED <<data_exits, cexit_matches, nexit_matches, door_object_matches,
                   door_macro_matches, exits_by_room, exit_idx, tokVars, recVars, clVars, normVars, runVars, srcVars, melVars, idxVars>>

\* build_exits: one iteration of the loop over data['exits']
BuildExit ==
    /\ exits_pc = "build"
    /\ exit_idx < Len(data_exits)
    /\ LET exit_data == data_exits[exit_idx + 1]
           direction == convert_direction(exit_data.dir)
       IN  exits_by_room' =
               PutExit(exits_by_room, exit_data.source, direction,
                       ExitEntry(door_objects, conditional_exits,
                                 exit_data.source, direction, exit_data.target))
    /\ exit_idx' = exit_idx + 1
    /\ UNCHANGED <<data_exits, cexit_matches, nexit_matches, door_object_matches,
                   door_macro_matches, conditional_exits, door_objects, exits_pc, tokVars, recVars, clVars, normVars, runVars, srcVars, melVars, idxVars>>

\* build_exits, line 353: the loop is over
BuildExitsReturn ==
    /\ exits_pc = "build"
    /\ exit_idx = Len(data_exits)
    /\ exits_pc' = "done"
    /\ UNCHANGED <<data_exits, cexit_matches, nexit_matches, door_object_matches,
                   door_macro_matches, conditional_exits, door_objects, exits_by_room,
                   exit_idx, tokVars, recVars, clVars, normVars, runVars, srcVars, melVars, idxVars>>

NextExits == SceneInit \/ BuildExit \/ BuildExitsReturn

SpecExits == InitExits /\ [][NextExits]_vars

-----------------------------------------------------------------------------
(* ItemExtractor.parse_objects.  The matches of object_pattern, in source  *)
(* order, are the input: each a record of the two groups names_str and     *)
(* definition.  The regular expressions applied to one line are computed.  *)

Digits == "0123456789"
IsDigit(c) == c # "" /\ contains(Digits, c)

\* the number of leading characters of s that are in the set chars
RECURSIVE RunLength(_, _)
RunLength(s, chars) ==
    IF s # "" /\ Head(s) \in chars THEN 1 + RunLength(Tail(s), chars) ELSE 0

DigitChars == {SubSeq(Digits, k, k) : k \in 1..Len(Digits)}

\* int(s) for a string of digits
RECURSIVE ParseInt(_, _)
ParseInt(s, acc) ==
    IF s = "" THEN acc
    ELSE ParseInt(Tail(s), 10 * acc + (CHOOSE k \in 0..9 : SubSeq(Digits, k + 1, k + 1) = Head(s)))

\* s[k:]
From(s, k) == SubSeq(s, k + 1, Len(s))

\* the places k where `KEYWORD\s+(\d+)` matches the line
IntMatches(line, keyword) ==
    {k \in 0..(Len(line) - Len(keyword)) :
        /\ Slice(line, k, k + Len(keyword)) = keyword
        /\ LET rest == From(line, k + Len(keyword))
               ws == RunLength(rest, Whitespace)
           IN  ws >= 1 /\ RunLength(From(rest, ws), DigitChars) >= 1}

Least(S) == CHOOSE k \in S : \A l \in S : k <= l

\* re.search(r'KEYWORD\s+(\d+)', line).group(1) as an int
IntGroup(line, keyword) ==
    LET rest == From(line, Least(IntMatches(line, keyword)) + Len(keyword))
        digits == From(rest, RunLength(rest, Whitespace))
    IN  ParseInt(SubSeq(digits, 1, RunLength(digits, DigitChars)), 0)

\* the places k where `KEYWORD\s+"([^"]*)"` matches the line
TextMatches(line, keyword) ==
    {k \in 0..(Len(line) - Len(keyword)) :
        /\ Slice(line, k, k + Len(keyword)) = keyword
        /\ LET rest == From(line, k + Len(keyword))
               ws == RunLength(rest, Whitespace)
           IN  /\ ws >= 1
               /\ CharAt(rest, ws) = "\""
               /\ contains(From(rest, ws + 1), "\"")}

TextGroup(line, keyword) ==
    LET rest == From(line, Least(TextMatches(line, keyword)) + Len(keyword))
        quoted == From(rest, RunLength(rest, Whitespace) + 1)
    IN  split(quoted, "\"")[1]

\* re.search(r'CLOCK-INT.*?(\d+)', line): the first run of digits after the
\* first CLOCK-INT
AfterClockInt(line) ==
    From(line, Least({k \in 0..(Len(line) - 9) : Slice(line, k, k + 9) = "CLOCK-INT"}) + 9)

RECURSIVE FirstDigits(_)
FirstDigits(s) ==
    IF s = "" THEN ""
    ELSE IF IsDigit(Head(s)) THEN SubSeq(s, 1, RunLength(s, DigitChars))
    ELSE FirstDigits(Tail(s))

\* lines 81-126: the property chain; at most one branch runs for a line
LineProperties(obj, line) ==
    LET SetProp(key, value) ==
            [obj EXCEPT !.properties = DictPut(obj.properties, key, value)]
        IntProp(keyword, key) ==
            IF IntMatches(line, keyword) # {} THEN SetProp(key, IntGroup(line, keyword)) ELSE obj
    IN  IF contains(line, "ODESC1")
        THEN IF TextMatches(line, "ODESC1") # {}
             THEN SetField(obj, "examine_text", TextGroup(line, "ODESC1")) ELSE obj
        ELSE IF contains(line, "ODESCO")
        THEN IF TextMatches(line, "ODESCO") # {}
             THEN SetField(obj, "examine_text", TextGroup(line, "ODESCO")) ELSE obj
        ELSE IF contains(line, "OSIZE") THEN IntProp("OSIZE", "size")
        ELSE IF contains(line, "OFVAL") THEN IntProp("OFVAL", "value")
        ELSE IF contains(line, "OTVAL") THEN IntProp("OTVAL", "treasurePoints")
        ELSE IF contains(line, "OCAPAC") THEN IntProp("OCAPAC", "capacity")
        ELSE IF contains(line, "OREAD")
        THEN IF TextMatches(line, "OREAD") # {}
             THEN SetProp("readText", TextGroup(line, "OREAD")) ELSE obj
        ELSE IF contains(line, "OLINT")
        THEN IF contains(line, "CLOCK-INT") /\ FirstDigits(AfterClockInt(line)) # ""
             THEN SetProp("lightTimer", ParseInt(FirstDigits(AfterClockInt(line)), 0)) ELSE obj
        ELSE IF contains(line, "OMATCH") THEN IntProp("OMATCH", "matchCount")
        ELSE obj

\* the legacy flag spellings and their canonical tags, in the order in which
\* both chains (lines 133-186 and 189-240) test them
flag_table == <<
    [k |-> "OVISON", v |-> "VISIBLE"],
    [k |-> "TAKEBIT", v |-> "PORTABLE"],
    [k |-> "LIGHTBIT", v |-> "LIGHT_SOURCE"],
    [k |-> "CONTBIT", v |-> "CONTAINER"],
    [k |-> "OPENBIT", v |-> "OPENABLE"],
    [k |-> "WEAPONBIT", v |-> "WEAPON"],
    [k |-> "TREASUREBIT", v |-> "TREASURE"],
    [k |-> "SACREDBIT", v |-> "TREASURE"],
    [k |-> "TOOLBIT", v |-> "TOOL"],
    [k |-> "FOODBIT", v |-> "FOOD"],
    [k |-> "DRINKBIT", v |-> "DRINK"],
    [k |-> "VEHBIT", v |-> "VEHICLE"],
    [k |-> "READBIT", v |-> "READABLE"],
    [k |-> "BURNBIT", v |-> "FLAMMABLE"],
    [k |-> "DOORBIT", v |-> "DOOR"],
    [k |-> "TURNBIT", v |-> "TURNABLE"],
    [k |-> "ONBIT", v |-> "SWITCHABLE"],
    [k |-> "FLAMEBIT", v |-> "FLAME_SOURCE"],
    [k |-> "SEARCHBIT", v |-> "SEARCHABLE"],
    [k |-> "VICBIT", v |-> "CHARACTER"],
    [k |-> "NDESCBIT", v |-> "NO_DESCRIPTION"],
    [k |-> "TIEBIT", v |-> "TIEABLE"],
    [k |-> "DIGBIT", v |-> "DIGGABLE"],
    [k |-> "CLIMBBIT", v |-> "CLIMBABLE"],
    [k |-> "TRYTAKEBIT", v |-> "DANGEROUS"],
    [k |-> "BUNCHBIT", v |-> "COLLECTIVE"]
>>

\* re.search(r'<\+[^>]*>', line): the first "<+" up to the first ">" after it
HasCombination(line) ==
    \E k \in 0..(Len(line) - 2) :
        Slice(line, k, k + 2) = "<+" /\ contains(From(line, k + 2), ">")

Combination(line) ==
    LET k == Least({l \in 0..(Len(line) - 2) : Slice(line, l, l + 2) = "<+"})
        end == Least({l \in (k + 2)..(Len(line) - 1) : CharAt(line, l) = ">"})
    IN  Slice(line, k, end + 1)

\* lines 133-186: one `if` for each entry of the table, each appending its tag
RECURSIVE CombinationTags(_, _)
CombinationTags(flag_line, table) ==
    IF table = <<>> THEN <<>>
    ELSE (IF contains(flag_line, Head(table).k) THEN <<Head(table).v>> ELSE <<>>)
            \o CombinationTags(flag_line, Tail(table))

\* lines 189-240: an `elif` chain; the first entry found in the line appends
RECURSIVE StandaloneTags(_, _)
StandaloneTags(line, table) ==
    IF table = <<>> THEN <<>>
    ELSE IF contains(line, Head(table).k) THEN <<Head(table).v>>
    ELSE StandaloneTags(line, Tail(table))

\* lines 129-240: the flags one line appends
LineFlags(line) ==
    IF HasCombination(line) THEN CombinationTags(Combination(line), flag_table)
    ELSE StandaloneTags(line, flag_table)

\* lines 79-240: the loop over the lines of the definition
RECURSIVE ParseLines(_, _)
ParseLines(obj, lines) ==
    IF lines = <<>> THEN obj
    ELSE LET line == strip(Head(lines))
             withProps == LineProperties(obj, line)
         IN  ParseLines([withProps EXCEPT !.flags = withProps.flags \o LineFlags(line)],
                        Tail(lines))

\* line 43
ItemNames(names_str) == StrippedNonBlank(split(names_str, "\""))

IsBracketed(line) == startswith(line, "[") /\ SubSeq(line, Len(line), Len(line)) = "]"
IsQuoted(line) == startswith(line, "\"") /\ SubSeq(line, Len(line), Len(line)) = "\""

\* lines 48-76: the object with its positional adjectives and description
ObjectHeader(names, definition) ==
    LET lines == split(strip(definition), "\n")
        adj_line == strip(lines[1])
        hasAdj == IsBracketed(adj_line)
        adj_content == SubSeq(adj_line, 2, Len(adj_line) - 1)
        current_line == IF hasAdj THEN 1 ELSE 0
        hasDesc == current_line < Len(lines) /\ IsQuoted(strip(lines[current_line + 1]))
        desc_line == strip(lines[current_line + 1])
    IN  [names |-> names,
         primary_name |-> names[1],
         adjectives |-> IF hasAdj /\ adj_content # ""
                        THEN StrippedNonBlank(split(adj_content, "\"")) ELSE <<>>,
         description |-> IF hasDesc THEN SubSeq(desc_line, 2, Len(desc_line) - 1) ELSE "",
         flags |-> <<>>,
         properties |-> <<>>,
         raw_definition |-> strip(definition)]

\* lines 38-242: the objects list after one more match
ParseObject(parsed, match) ==
    IF ItemNames(match.names_str) = <<>> THEN parsed
    ELSE Append(parsed,
                ParseLines(ObjectHeader(ItemNames(match.names_str), match.definition),
                           split(strip(match.definition), "\n")))

-----------------------------------------------------------------------------
(* ItemExtractor: from a parsed object to its item record *)

InSeq(x, seq) == \E k \in DOMAIN seq : seq[k] = x

RECURSIVE MapUpper(_)
MapUpper(seq) == IF seq = <<>> THEN <<>> ELSE <<upper(Head(seq))>> \o MapUpper(Tail(seq))

\* determine_item_type with the container rule tested before the weapon rule
determine_item_type_ContainerFirst(obj) ==
    LET flags == MapUpper(obj.flags)
        properties == obj.properties
    IN  IF DictHas(properties, "value") /\ DictHas(properties, "treasurePoints") THEN "TREASURE"
        ELSE IF InSeq("FOOD", flags) \/ InSeq("DRINK", flags) THEN "FOOD"
        ELSE IF InSeq("CONTAINER", flags) \/ InSeq("OPENABLE", flags) THEN "CONTAINER"
        ELSE IF InSeq("WEAPON", flags) THEN "WEAPON"
        ELSE IF InSeq("LIGHT_SOURCE", flags) THEN "LIGHT_SOURCE"
        ELSE IF InSeq("TOOL", flags) THEN "TOOL"
        ELSE IF InSeq("TREASURE", flags) THEN "TREASURE"
        ELSE "TOOL"

\* lines 272-294
determine_item_type(obj) ==
    LET flags == MapUpper(obj.flags)
        properties == obj.properties
    IN  IF DictHas(properties, "value") /\ DictHas(properties, "treasurePoints") THEN "TREASURE"
        ELSE IF InSeq("FOOD", flags) \/ InSeq("DRINK", flags) THEN "FOOD"
        ELSE IF InSeq("WEAPON", flags) THEN "WEAPON"
        ELSE IF InSeq("CONTAINER", flags) \/ InSeq("OPENABLE", flags) THEN "CONTAINER"
        ELSE IF InSeq("LIGHT_SOURCE", flags) THEN "LIGHT_SOURCE"
        ELSE IF InSeq("TOOL", flags) THEN "TOOL"
        ELSE IF InSeq("TREASURE", flags) THEN "TREASURE"
        ELSE "TOOL"

\* convert_size with strict comparisons
convert_size_Strict(numeric_size) ==
    IF numeric_size < 5 THEN "TINY"
    ELSE IF numeric_size < 10 THEN "SMALL"
    ELSE IF numeric_size < 20 THEN "MEDIUM"
    ELSE IF numeric_size < 40 THEN "LARGE"
    ELSE "HUGE"

\* lines 296-307
convert_size(numeric_size) ==
    IF numeric_size <= 5 THEN "TINY"
    ELSE IF numeric_size <= 10 THEN "SMALL"
    ELSE IF numeric_size <= 20 THEN "MEDIUM"
    ELSE IF numeric_size <= 40 THEN "LARGE"
    ELSE "HUGE"

\* set([tag.lower() for tag in obj['flags']])
LowerTagSet(flags) == {lower(flags[k]) : k \in DOMAIN flags}

\* every list that holds each element of the set once
RECURSIVE Orderings(_)
Orderings(S) ==
    IF S = {} THEN {<<>>}
    ELSE UNION {{<<x>> \o rest : rest \in Orderings(S \ {x})} : x \in S}

\* the tags without the set() of line 264
TagOrders_NoSet(flags) == {[k \in DOMAIN flags |-> lower(flags[k])]}

\* the lists that list(set(...)) of line 264 can be: a set of strings is
\* iterated in the order of the hashes of this process, so every order of
\* the distinct tags is possible
TagOrders(flags) == Orderings(LowerTagSet(flags))

\* line 249: the id of an item, from its primary name
item_id(name) == replace(lower(name), " ", "_")

\* convert_to_item_json, with the tags in the given order
convert_to_item_json(obj, tags) ==
    [id |-> item_id(obj.names[1]),
     name |-> IF obj.description # "" THEN obj.description ELSE obj.names[1],
     aliases |-> Tail(obj.names) \o obj.adjectives,
     type |-> determine_item_type(obj),
     portable |-> InSeq("PORTABLE", obj.flags),
     visible |-> InSeq("VISIBLE", obj.flags),
     weight |-> DictGetOr(obj.properties, "size", 5),
     size |-> convert_size(DictGetOr(obj.properties, "size", 5)),
     tags |-> tags,
     properties |-> obj.properties]

-----------------------------------------------------------------------------
(* SceneExtractor: from a room of the JSON source to its scene record *)

region_mapping == <<
    [k |-> "above_ground", v |-> <<"WHOUS", "NHOUS", "SHOUS", "EHOUS", "FORE1", "FORE2",
                                   "FORE3", "PATH", "CLEAR", "BEACH", "RESER", "DAM">>],
    [k |-> "underground", v |-> <<"LROOM", "KITCH", "ATTIC", "CELLA", "TWELL", "EGYPT",
                                  "SANDY", "ROCKY", "OROOM", "CAROU", "MTROL", "TREAS",
                                  "WINDM">>],
    [k |-> "maze", v |-> <<"MAZE1", "MAZE2", "MAZE3", "MAZE4", "MAZE5", "MAZE6", "MAZE7",
                           "MAZE8", "MAZE9", "MAZ10", "MAZ11", "MAZ12", "MAZ13", "MAZ14",
                           "MAZ15", "MGRAT", "DEAD1", "DEAD2", "DEAD3", "DEAD4">>],
    [k |-> "endgame", v |-> <<"MTREE", "FALLS", "MTOP", "DOME", "TORCH", "TEMP", "ALTAR",
                              "FORE4", "VOLCA", "HBARR", "NCELL", "NIRVA">>]
>>

RECURSIVE MappedRegion(_, _)
MappedRegion(key, mapping) ==
    IF mapping = <<>> THEN None
    ELSE IF InSeq(key, Head(mapping).v) THEN Head(mapping).k
    ELSE MappedRegion(key, Tail(mapping))

determine_region(key) ==
    IF MappedRegion(key, region_mapping) # None THEN MappedRegion(key, region_mapping)
    ELSE IF contains(key, "MAZE") \/ contains(key, "DEAD") THEN "maze"
    ELSE IF key \in {"MTREE", "FALLS", "MTOP", "DOME", "TORCH", "TEMP", "ALTAR", "VOLCA",
                     "HBARR", "NCELL", "NIRVA"} THEN "endgame"
    ELSE IF key \in {"WHOUS", "NHOUS", "SHOUS", "EHOUS", "FORE1", "FORE2", "FORE3", "PATH",
                     "CLEAR"} THEN "above_ground"
    ELSE "underground"

\* create_scene_data: the fields computed from the room and from exits_by_room
create_scene_data(room, by_room) ==
    LET key == room.key
        scene_id == convert_key_to_id(key)
        region == determine_region(key)
    IN  [id |-> scene_id,
         title |-> room.name,
         description |-> IF room.desc # "" THEN room.desc
                         ELSE "You are in the " \o lower(room.name) \o ".",
         exits |-> DictGetOr(by_room, key, <<>>),
         region |-> region,
         tags |-> <<region>>
                  \o (IF contains(scene_id, "maze") THEN <<"maze", "confusing">> ELSE <<>>)
                  \o (IF region = "endgame" THEN <<"sacred", "final_area">> ELSE <<>>)
                  \o (IF key \in {"TREAS", "MTROL", "CYCLO"} THEN <<"dangerous">> ELSE <<>>)]

-----------------------------------------------------------------------------
(* MonsterExtractorV2: the fixed table of monsters and their records *)

monster_objects == <<
    [k |-> "thief", v |-> [mdl_name |-> "thief", flags |-> <<"OVISON", "VICBIT", "VILLAIN">>]],
    [k |-> "troll", v |-> [mdl_name |-> "troll", flags |-> <<"OVISON", "VICBIT", "VILLAIN">>]],
    [k |-> "cyclops", v |-> [mdl_name |-> "cyclops", flags |-> <<"OVISON", "VICBIT", "VILLAIN">>]],
    [k |-> "grue", v |-> [mdl_name |-> "lurking grue", flags |-> <<"OVISON">>]],
    [k |-> "ghost", v |-> [mdl_name |-> "number of ghosts", flags |-> <<"OVISON", "VICBIT">>]],
    [k |-> "volcano_gnome", v |-> [mdl_name |-> "Volcano Gnome", flags |-> <<"OVISON", "VICBIT">>]],
    [k |-> "gnome_of_zurich", v |-> [mdl_name |-> "Gnome of Zurich",
                                     flags |-> <<"OVISON", "VICBIT", "VILLAIN">>]],
    [k |-> "guardian_of_zork", v |-> [mdl_name |-> "Guardian of Zork",
                                      flags |-> <<"OVISON", "VICBIT", "VILLAIN">>]],
    [k |-> "vampire_bat", v |-> [mdl_name |-> "bat",
                                 flags |-> <<"OVISON", "NDESCBIT", "TRYTAKEBIT">>]]
>>

\* determine_monster_type with the VICBIT test before the VILLAIN test
determine_monster_type_VicbitFirst(flags) ==
    IF InSeq("VICBIT", flags) THEN "creature"
    ELSE IF InSeq("VILLAIN", flags) THEN "humanoid"
    ELSE "environmental"

\* lines 208-215
determine_monster_type(flags) ==
    IF InSeq("VILLAIN", flags) THEN "humanoid"
    ELSE IF InSeq("VICBIT", flags) THEN "creature"
    ELSE "environmental"

\* create_monster_data: the fields computed from the table alone
create_monster_data(monster_id, mdl_data) ==
    [id |-> monster_id,
     name |-> mdl_data.mdl_name,
     type |-> determine_monster_type(mdl_data.flags),
     flags |-> mdl_data.flags]

-----------------------------------------------------------------------------
(* MonsterVerifier: what the verifier expects of the monster files *)

\* verify_index, lines 96-100
expected_types == <<
    [k |-> "humanoid", v |-> 5],
    [k |-> "creature", v |-> 2],
    [k |-> "environmental", v |-> 2]
>>

\* verify_monsters, lines 116-126: the expected type of each monster
expected_monsters == <<
    [k |-> "thief", v |-> "humanoid"],
    [k |-> "troll", v |-> "humanoid"],
    [k |-> "cyclops", v |-> "humanoid"],
    [k |-> "grue", v |-> "environmental"],
    [k |-> "ghost", v |-> "creature"],
    [k |-> "volcano_gnome", v |-> "creature"],
    [k |-> "gnome_of_zurich", v |-> "humanoid"],
    [k |-> "guardian_of_zork", v |-> "humanoid"],
    [k |-> "vampire_bat", v |-> "environmental"]
>>

-----------------------------------------------------------------------------
(* Bounds and inputs of the record loops *)

MaxLines == 2
MaxObjects == 2
MaxRooms == 2

\* legacy flag tokens: three of the dictionary and one that is not in it
FlagTokens == {"TAKEBIT", "TRYTAKEBIT", "WEAPONBIT", "XYZBIT"}

\* a combination list of one token, or of two
CombinationLines == {"<+ ," \o a \o ">" : a \in FlagTokens} \cup {"<+ ,OVISON ,TAKEBIT>"}

\* a combination list followed by a standalone token on the same line
MixedLines == {"<+ ," \o a \o "> TAKEBIT" : a \in FlagTokens}

\* two standalone tokens on one line
PairLines == {"OVISON TAKEBIT"}

BodyLines == FlagTokens \cup CombinationLines \cup MixedLines \cup PairLines

RECURSIVE JoinLines(_)
JoinLines(lines) ==
    IF lines = <<>> THEN ""
    ELSE IF Len(lines) = 1 THEN lines[1]
    ELSE lines[1] \o "\n" \o JoinLines(Tail(lines))

\* one object definition whose body is up to MaxLines flag lines
FlagBodyInputs ==
    {<<[names_str |-> "\"SWORD\"", definition |-> JoinLines(body)]>> :
        body \in SeqsUpTo(BodyLines, MaxLines)}

\* name lists: two spellings of one name, two names that the id rule maps to
\* one id, a second name, and a list that holds no name
NamesChoices == {"\"SWORD\" \"BLADE\"", "\"Sword\"", "\"A B\"", "\"a_b\"", "\"\" "}

DefinitionChoices == {"", "[\"OLD\"]\n\"elvish sword\"\nOSIZE 12\n<+ ,OVISON ,TAKEBIT>"}

NamedObjectInputs ==
    SeqsUpTo([names_str : NamesChoices, definition : DefinitionChoices], MaxObjects)

\* rooms of the JSON source: keys of the two maze spellings, of the table,
\* of the dead-end family and of the generic fallback
RoomKeys == {"MAZE1", "MAZ1", "WHOUS", "DEAD1", "Two Words"}

RoomInputs ==
    SeqsUpTo({[key |-> key, name |-> "Room " \o key, desc |-> ""] : key \in RoomKeys},
             MaxRooms)

InitRecordVars(matches, rooms, pc) ==
    /\ object_matches = matches
    /\ data_rooms = rooms
    /\ objects = <<>>
    /\ rec_idx = 0
    /\ item_files = <<>>
    /\ all_items = <<>>
    /\ scene_files = <<>>
    /\ all_scenes = <<>>
    /\ monsters = <<>>
    /\ rec_pc = pc
    /\ IdleTok /\ IdleExits /\ IdleClassify /\ IdleNormalize /\ IdleRuns /\ IdleSources /\ IdleMelee /\ IdleIndex

\* one run of the item extractor over one object definition
InitItems == \E matches \in FlagBodyInputs : InitRecordVars(matches, <<>>, "construct")

\* one run of one of the three extractors
InitRecords ==
    \/ \E matches \in NamedObjectInputs : InitRecordVars(matches, <<>>, "construct")
    \/ \E rooms \in RoomInputs : InitRecordVars(<<>>, rooms, "scenes")
    \/ InitRecordVars(<<>>, <<>>, "monsters")

\* parse_objects with a break where the code has its continue (line 46)
RECURSIVE parse_objects_StopAtNameless(_, _)
parse_objects_StopAtNameless(matches, parsed) ==
    IF matches = <<>> THEN parsed
    ELSE IF ItemNames(Head(matches).names_str) = <<>> THEN parsed
    ELSE parse_objects_StopAtNameless(Tail(matches), ParseObject(parsed, Head(matches)))

\* lines 38-244: the loop over the matches
RECURSIVE parse_objects(_, _)
parse_objects(matches, parsed) ==
    IF matches = <<>> THEN parsed
    ELSE parse_objects(Tail(matches), ParseObject(parsed, Head(matches)))

\* ItemExtractor.__init__, line 17: self.objects = self.parse_objects()
ParseObjects ==
    /\ rec_pc = "construct"
    /\ objects' = parse_objects(object_matches, <<>>)
    /\ rec_pc' = "items"
    /\ UNCHANGED <<object_matches, data_rooms, rec_idx, item_files, all_items,
                   scene_files, all_scenes, monsters, tokVars, exitVars, clVars, normVars, runVars, srcVars, melVars, idxVars>>

\* extract_items, lines 415-424: one iteration of the loop over self.objects
ExtractItem ==
    /\ rec_pc = "items"
    /\ rec_idx < Len(objects)
    /\ LET obj == objects[rec_idx + 1]
       IN  IF obj.names = <<>>
           THEN UNCHANGED <<item_files, all_items>>
           ELSE \E tags \in TagOrders(obj.flags) :
                   LET item_data == convert_to_item_json(obj, tags)
                       filename == item_data.id \o ".json"
                   IN  /\ item_files' = DictPut(item_files, filename, item_data)
                       /\ all_items' = Append(all_items, filename)
    /\ rec_idx' = rec_idx + 1
    /\ UNCHANGED <<object_matches, objects, data_rooms, scene_files, all_scenes,
                   monsters, rec_pc, tokVars, exitVars, clVars, normVars, runVars, srcVars, melVars, idxVars>>

\* extract_items, lines 426-444: the files and the index are written
ExtractItemsReturn ==
    /\ rec_pc = "items"
    /\ rec_idx = Len(objects)
    /\ rec_pc' = "done"
    /\ UNCHANGED <<object_matches, objects, data_rooms, rec_idx, item_files, all_items,
                   scene_files, all_scenes, monsters, tokVars, exitVars, clVars, normVars, runVars, srcVars, melVars, idxVars>>

\* extract_scenes, lines 458-510: one iteration of the loop over data['rooms']
ExtractScene ==
    /\ rec_pc = "scenes"
    /\ rec_idx < Len(data_rooms)
    /\ LET scene_data == create_scene_data(data_rooms[rec_idx + 1], exits_by_room)
           filename == scene_data.id \o ".json"
       IN  /\ scene_files' = DictPut(scene_files, filename, scene_data)
           /\ all_scenes' = Append(all_scenes, filename)
    /\ rec_idx' = rec_idx + 1
    /\ UNCHANGED <<object_matches, objects, data_rooms, item_files, all_items,
                   monsters, rec_pc, tokVars, exitVars, clVars, normVars, runVars, srcVars, melVars, idxVars>>

\* extract_scenes, lines 491-510: the files and the index are written
ExtractScenesReturn ==
    /\ rec_pc = "scenes"
    /\ rec_idx = Len(data_rooms)
    /\ rec_pc' = "done"
    /\ UNCHANGED <<object_matches, objects, data_rooms, rec_idx, item_files, all_items,
                   scene_files, all_scenes, monsters, tokVars, exitVars, clVars, normVars, runVars, srcVars, melVars, idxVars>>

\* extract_monsters, lines 305-308: one iteration over monster_objects
ExtractMonster ==
    /\ rec_pc = "monsters"
    /\ rec_idx < Len(monster_objects)
    /\ LET monster_id == monster_objects[rec_idx + 1].k
           mdl_data == monster_objects[rec_idx + 1].v
       IN  monsters' = DictPut(monsters, monster_id, create_monster_data(monster_id, mdl_data))
    /\ rec_idx' = rec_idx + 1
    /\ UNCHANGED <<object_matches, objects, data_rooms, item_files, all_items,
                   scene_files, all_scenes, rec_pc, tokVars, exitVars, clVars, normVars, runVars, srcVars, melVars, idxVars>>

\* extract_monsters, line 310
ExtractMonstersReturn ==
    /\ rec_pc = "monsters"
    /\ rec_idx = Len(monster_objects)
    /\ rec_pc' = "done"
    /\ UNCHANGED <<object_matches, objects, data_rooms, rec_idx, item_files, all_items,
                   scene_files, all_scenes, monsters, tokVars, exitVars, clVars, normVars, runVars, srcVars, melVars, idxVars>>

\* write_files, lines 333-336: the type lists after the loop over the monsters
RECURSIVE CategorizeByType(_, _)
CategorizeByType(table, types) ==
    IF table = <<>> THEN types
    ELSE LET monster_type == Head(table).v.type
         IN  CategorizeByType(Tail(table),
                              IF DictHas(types, monster_type)
                              THEN DictPut(types, monster_type,
                                           Append(DictGet(types, monster_type), Head(table).k))
                              ELSE types)

RECURSIVE KeyList(_)
KeyList(d) == IF d = <<>> THEN <<>> ELSE <<Head(d).k>> \o KeyList(Tail(d))

\* write_files, lines 323-336: index_data
index_data(table) ==
    [monsters |-> KeyList(table),
     total |-> Len(table),
     types |-> CategorizeByType(table, <<[k |-> "humanoid", v |-> <<>>],
                                         [k |-> "creature", v |-> <<>>],
                                         [k |-> "environmental", v |-> <<>>]>>)]

\* main(), line 352: write_files after extract_monsters
WriteFiles ==
    /\ rec_pc = "done"
    /\ monsters # <<>>
    /\ monster_index' = index_data(monsters)
    /\ rec_pc' = "written"
    /\ UNCHANGED <<object_matches, objects, data_rooms, rec_idx, item_files, all_items,
                   scene_files, all_scenes, monsters, tokVars, exitVars, clVars, normVars,
                   runVars, srcVars, melVars>>

NextItems == ParseObjects \/ ExtractItem \/ ExtractItemsReturn

NextRecords ==
    \/ ParseObjects \/ ExtractItem \/ ExtractItemsReturn
    \/ ExtractScene \/ ExtractScenesReturn
    \/ ExtractMonster \/ ExtractMonstersReturn \/ WriteFiles

SpecItems == InitItems /\ [][NextItems]_vars

SpecRecords == InitRecords /\ [][NextRecords]_vars

-----------------------------------------------------------------------------
(* Inputs of the item classifier: every list of the tags that the rules of *)
(* determine_item_type test, and of one they do not, in dictionary order,  *)
(* with every choice of the two properties of the first rule               *)

ClassifierTags == <<"PORTABLE", "LIGHT_SOURCE", "CONTAINER", "OPENABLE", "WEAPON",
                    "TREASURE", "TOOL", "FOOD", "DRINK">>

RECURSIVE SubLists(_)
SubLists(seq) ==
    IF seq = <<>> THEN {<<>>}
    ELSE LET rest == SubLists(Tail(seq))
         IN  rest \cup {<<Head(seq)>> \o r : r \in rest}

MaxSize == 42

\* the sizes an OSIZE line can give: the digits of \d+ are a natural number
SizeChoices == {<<[k |-> "size", v |-> n]>> : n \in 0..MaxSize}

PropertyChoices == SizeChoices \cup
                   {<<>>,
                    <<[k |-> "value", v |-> 10]>>,
                    <<[k |-> "treasurePoints", v |-> 5]>>,
                    <<[k |-> "value", v |-> 10], [k |-> "treasurePoints", v |-> 5]>>,
                    <<[k |-> "size", v |-> 12], [k |-> "value", v |-> 10]>>}

InitClassify ==
    /\ cl_flags \in SubLists(ClassifierTags)
    /\ cl_properties \in PropertyChoices
    /\ cl_type = ""
    /\ cl_size = ""
    /\ cl_pc = "call"
    /\ IdleTok /\ IdleExits /\ IdleRecords /\ IdleNormalize /\ IdleRuns /\ IdleSources /\ IdleMelee /\ IdleIndex

\* convert_to_item_json, lines 258 and 262: the type and the size of the object
Classify ==
    /\ cl_pc = "call"
    /\ cl_type' = determine_item_type([flags |-> cl_flags, properties |-> cl_properties])
    /\ cl_size' = convert_size(DictGetOr(cl_properties, "size", 5))
    /\ cl_pc' = "done"
    /\ UNCHANGED <<cl_flags, cl_properties, tokVars, exitVars, recVars, normVars, runVars, srcVars, melVars, idxVars>>

NextClassify == Classify

SpecClassify == InitClassify /\ [][NextClassify]_vars

-----------------------------------------------------------------------------
(* ZorkExtractor.convert_key_to_id (zork_extractor.py) *)

conversions == <<
    [k |-> "WHOUS", v |-> "west_of_house"],
    [k |-> "NHOUS", v |-> "north_of_house"],
    [k |-> "SHOUS", v |-> "south_of_house"],
    [k |-> "EHOUS", v |-> "behind_house"],
    [k |-> "LROOM", v |-> "living_room"],
    [k |-> "KITCH", v |-> "kitchen"],
    [k |-> "ATTIC", v |-> "attic"],
    [k |-> "CELLA", v |-> "cellar"],
    [k |-> "TWELL", v |-> "treasure_well"],
    [k |-> "FORE1", v |-> "forest_1"],
    [k |-> "FORE2", v |-> "forest_2"],
    [k |-> "FORE3", v |-> "forest_3"],
    [k |-> "FORE4", v |-> "forest_4"],
    [k |-> "PATH", v |-> "forest_path"],
    [k |-> "CLEAR", v |-> "clearing"],
    [k |-> "BEACH", v |-> "beach"],
    [k |-> "RESER", v |-> "reservoir"],
    [k |-> "DAM", v |-> "dam"],
    [k |-> "EGYPT", v |-> "egyptian_room"],
    [k |-> "SANDY", v |-> "sandy_beach"],
    [k |-> "ROCKY", v |-> "rocky_ledge"],
    [k |-> "OROOM", v |-> "round_room"],
    [k |-> "CAROU", v |-> "carousel_room"],
    [k |-> "MTROL", v |-> "troll_room"],
    [k |-> "TREAS", v |-> "treasure_room"],
    [k |-> "WINDM", v |-> "windmill"],
    [k |-> "MGRAT", v |-> "grating_room"],
    [k |-> "MTREE", v |-> "up_tree"],
    [k |-> "FALLS", v |-> "top_of_falls"],
    [k |-> "MTOP", v |-> "mountain_top"],
    [k |-> "DOME", v |-> "temple_dome"],
    [k |-> "TORCH", v |-> "torch_room"],
    [k |-> "TEMP", v |-> "temple"],
    [k |-> "ALTAR", v |-> "altar"],
    [k |-> "VOLCA", v |-> "volcano"],
    [k |-> "HBARR", v |-> "barrow"],
    [k |-> "NCELL", v |-> "cell"],
    [k |-> "NIRVA", v |-> "treasury_of_zork"],
    [k |-> "CYCLO", v |-> "cyclops_room"],
    [k |-> "BLROO", v |-> "strange_passage"]
>>

zork_convert_key_to_id(key) ==
    IF startswith(key, "MAZE") \/ startswith(key, "MAZ")
    THEN "maze_" \o replace(replace(key, "MAZE", ""), "MAZ", "")
    ELSE IF startswith(key, "DEAD")
    THEN "dead_end_" \o replace(key, "DEAD", "")
    ELSE DictGetOr(conversions, key, replace(lower(key), " ", "_"))

-----------------------------------------------------------------------------
(* Bounds and inputs of the identifier normalizer: the keys of the explicit  *)
(* table, keys of the maze and dead-end families, and keys that only the     *)
(* generic rule covers, with spaces, hyphens and lower-case letters          *)

MaxCalls == 2

FamilyKeys == {"MAZE1", "MAZE9", "MAZ10", "MAZ15", "DEAD1", "DEAD4"}

GenericKeys == {"Two Words", "A-B", "Round-Room 2", "SWORD", "cave", "LLD1"}

NormKeys == DictKeys(room_id_conversions) \cup FamilyKeys \cup GenericKeys

InitNormalize ==
    /\ norm_key \in NormKeys
    /\ scene_ids = <<>>
    /\ zork_ids = <<>>
    /\ item_ids = <<>>
    /\ norm_pc = "call"
    /\ IdleTok /\ IdleExits /\ IdleRecords /\ IdleClassify /\ IdleRuns /\ IdleSources /\ IdleMelee /\ IdleIndex

\* one call of each derivation on the key
Normalize ==
    /\ norm_pc = "call"
    /\ Len(scene_ids) < MaxCalls
    /\ scene_ids' = Append(scene_ids, convert_key_to_id(norm_key))
    /\ zork_ids' = Append(zork_ids, zork_convert_key_to_id(norm_key))
    /\ item_ids' = Append(item_ids, item_id(norm_key))
    /\ UNCHANGED <<norm_key, norm_pc, tokVars, exitVars, recVars, clVars, runVars, srcVars, melVars, idxVars>>

NextNormalize == Normalize

SpecNormalize == InitNormalize /\ [][NextNormalize]_vars

-----------------------------------------------------------------------------
(* Independent runs of the item extractor on the same source text *)

MaxRuns == 2

\* extract_items, lines 412-424 and 444: the item_files that the loop over
\* the objects can return, starting from the given item_files
RECURSIVE extract_items(_, _)
extract_items(objs, files) ==
    IF objs = <<>> THEN {files}
    ELSE IF Head(objs).names = <<>> THEN extract_items(Tail(objs), files)
    ELSE UNION {extract_items(Tail(objs),
                              DictPut(files, item_id(Head(objs).names[1]) \o ".json",
                                      convert_to_item_json(Head(objs), tags))) :
                    tags \in TagOrders(Head(objs).flags)}

InitRuns ==
    /\ run_matches \in FlagBodyInputs
    /\ run_files = <<>>
    /\ run_pc = "run"
    /\ IdleTok /\ IdleExits /\ IdleRecords /\ IdleClassify /\ IdleNormalize /\ IdleSources /\ IdleMelee /\ IdleIndex

\* main(): one process constructs an ItemExtractor and calls extract_items
RunItemExtractor ==
    /\ run_pc = "run"
    /\ Len(run_files) < MaxRuns
    /\ \E files \in extract_items(parse_objects(run_matches, <<>>), <<>>) :
          run_files' = Append(run_files, files)
    /\ UNCHANGED <<run_matches, run_pc, tokVars, exitVars, recVars, clVars, normVars, srcVars, melVars, idxVars>>

NextRuns == RunItemExtractor

SpecRuns == InitRuns /\ [][NextRuns]_vars

-----------------------------------------------------------------------------
(* The main() of the three extractors, on a source text that can or cannot *)
(* be read.  A run's files are the dict of the records it writes, with the *)
(* index it writes after them.                                             *)

RECURSIVE build_exits(_, _, _, _)
build_exits(exits, doors, cexits, by_room) ==
    IF exits = <<>> THEN by_room
    ELSE LET exit_data == Head(exits)
             direction == convert_direction(exit_data.dir)
         IN  build_exits(Tail(exits), doors, cexits,
                         PutExit(by_room, exit_data.source, direction,
                                 ExitEntry(doors, cexits, exit_data.source, direction,
                                           exit_data.target)))

\* extract_scenes, lines 458-510: scene_files after the loop over the rooms
RECURSIVE extract_scenes(_, _, _)
extract_scenes(rooms, by_room, files) ==
    IF rooms = <<>> THEN files
    ELSE extract_scenes(Tail(rooms), by_room,
                        DictPut(files, create_scene_data(Head(rooms), by_room).id \o ".json",
                                create_scene_data(Head(rooms), by_room)))

\* the monsters that have a melee_table
melee_tables == <<
    [k |-> "thief", v |-> "THIEF-MELEE"],
    [k |-> "troll", v |-> "TROLL-MELEE"],
    [k |-> "cyclops", v |-> "CYCLOPS-MELEE"],
    [k |-> "guardian_of_zork", v |-> "CYCLOPS-MELEE"]
>>

\* create_monster_data, lines 248-254: the messages are attached when the
\* monster has a melee table and what extract_melee_messages returned is
\* truthy; a None is held as the empty dict, which `if messages` treats alike
WithMeleeMessages(monster_data, messages) ==
    IF DictHas(melee_tables, monster_data.id) /\ messages # <<>>
    THEN SetField(monster_data, "meleeMessages", messages)
    ELSE monster_data

\* extract_monsters: self.monsters after the loop; messages is what
\* extract_melee_messages returns for the tables of the source
RECURSIVE extract_monsters(_, _, _)
extract_monsters(table, messages, out) ==
    IF table = <<>> THEN out
    ELSE extract_monsters(Tail(table), messages,
                          DictPut(out, Head(table).k \o ".json",
                                  WithMeleeMessages(create_monster_data(Head(table).k,
                                                                        Head(table).v),
                                                    messages)))

\* the files with the index written after them
WithIndex(files) == Append(files, [k |-> "index.json", v |-> [total |-> Len(files)]])

SourceMessages == <<
    [k |-> "miss", v |-> <<"The thief misses.">>],
    [k |-> "unconscious", v |-> <<>>],
    [k |-> "kill", v |-> <<>>],
    [k |-> "light_wound", v |-> <<>>],
    [k |-> "severe_wound", v |-> <<>>],
    [k |-> "stagger", v |-> <<>>],
    [k |-> "disarm", v |-> <<>>]
>>

SourceExits == {<<>>, <<[source |-> "NHOUS", dir |-> "NORTH", target |-> "KITCH"]>>}

InitSourceVars(readable, matches, rooms, exits, cexits, melee, pc) ==
    /\ src_readable = readable
    /\ src_matches = matches
    /\ src_rooms = rooms
    /\ src_exits = exits
    /\ src_cexits = cexits
    /\ src_melee = melee
    /\ src_written = <<>>
    /\ src_pc = pc
    /\ IdleTok /\ IdleExits /\ IdleRecords /\ IdleClassify /\ IdleNormalize /\ IdleRuns /\ IdleMelee /\ IdleIndex

InitSources ==
    \E readable \in BOOLEAN :
        \/ \E matches \in NamedObjectInputs :
              InitSourceVars(readable, matches, <<>>, <<>>, <<>>, <<>>, "items")
        \/ \E rooms \in RoomInputs, exits \in SourceExits, cexits \in SeqsUpTo(CexitChoices, 1) :
              InitSourceVars(readable, <<>>, rooms, exits, cexits, <<>>, "scenes")
        \/ \E melee \in {<<>>, SourceMessages} :
              InitSourceVars(readable, <<>>, <<>>, <<>>, <<>>, melee, "monsters")

\* item_extractor.py main(): the constructor calls parse_objects, whose open()
\* is not guarded, so its exception ends the process before extract_items
ItemMain ==
    /\ src_pc = "items"
    /\ IF src_readable
       THEN /\ \E files \in extract_items(parse_objects(src_matches, <<>>), <<>>) :
                  src_written' = WithIndex(files)
            /\ src_pc' = "done"
       ELSE /\ src_pc' = "aborted"
            /\ UNCHANGED src_written
    /\ UNCHANGED <<src_readable, src_matches, src_rooms, src_exits, src_cexits, src_melee,
                   tokVars, exitVars, recVars, clVars, normVars, runVars, melVars, idxVars>>

\* scene_extractor.py main(): without a readable MDL source mdl_content is
\* None or "" (lines 20 and 115-117), the two tables are {} (lines 21-22),
\* and extract_scenes runs all the same
SceneMain ==
    /\ src_pc = "scenes"
    /\ LET cexits == IF src_readable THEN parse_conditional_exits(src_cexits, <<>>) ELSE <<>>
           by_room == build_exits(src_exits, <<>>, cexits, <<>>)
       IN  src_written' = WithIndex(extract_scenes(src_rooms, by_room, <<>>))
    /\ src_pc' = "done"
    /\ UNCHANGED <<src_readable, src_matches, src_rooms, src_exits, src_cexits, src_melee,
                   tokVars, exitVars, recVars, clVars, normVars, runVars, melVars, idxVars>>

\* monster_extractor.py main(): extract_melee_messages catches the exception
\* of open() and returns None (lines 192-194); extract_monsters and
\* write_files run all the same
MonsterMain ==
    /\ src_pc = "monsters"
    /\ LET messages == IF src_readable THEN src_melee ELSE <<>>
       IN  src_written' = WithIndex(extract_monsters(monster_objects, messages, <<>>))
    /\ src_pc' = "done"
    /\ UNCHANGED <<src_readable, src_matches, src_rooms, src_exits, src_cexits, src_melee,
                   tokVars, exitVars, recVars, clVars, normVars, runVars, melVars, idxVars>>

NextSources == ItemMain \/ SceneMain \/ MonsterMain

SpecSources == InitSources /\ [][NextSources]_vars

-----------------------------------------------------------------------------
(* MonsterExtractorV2.extract_melee_messages: from the blocks to the       *)
(* messages dict                                                            *)

\* lines 138-146: the messages dict before the loop
empty_messages == <<
    [k |-> "miss", v |-> <<>>],
    [k |-> "unconscious", v |-> <<>>],
    [k |-> "kill", v |-> <<>>],
    [k |-> "light_wound", v |-> <<>>],
    [k |-> "severe_wound", v |-> <<>>],
    [k |-> "stagger", v |-> <<>>],
    [k |-> "disarm", v |-> <<>>]
>>

\* line 185
category_names == <<"miss", "unconscious", "kill", "light_wound", "severe_wound",
                    "stagger", "disarm">>

\* re.sub(r'\s+', ' ', msg)
RECURSIVE CollapseWhitespace(_)
CollapseWhitespace(msg) ==
    IF msg = "" THEN ""
    ELSE IF Head(msg) \in Whitespace
         THEN " " \o CollapseWhitespace(lstrip(msg))
         ELSE Head(msg) \o CollapseWhitespace(Tail(msg))

\* the place of the first quote of s, 0 when it has none
RECURSIVE FirstQuote(_)
FirstQuote(s) ==
    IF s = "" THEN 0
    ELSE IF Head(s) = "\"" THEN 1
    ELSE IF FirstQuote(Tail(s)) = 0 THEN 0 ELSE 1 + FirstQuote(Tail(s))

\* lines 196-206: re.findall(r'\["([^"]+)"\]', block), each match with its
\* backslash-n turned into a blank, stripped, and its whitespace collapsed
RECURSIVE extract_message_list(_)
extract_message_list(block) ==
    IF Len(block) < 2 THEN <<>>
    ELSE IF startswith(block, "[\"")
         THEN LET rest == SubSeq(block, 3, Len(block))
                  q == FirstQuote(rest)
              IN  IF q > 1 /\ q < Len(rest) /\ SubSeq(rest, q + 1, q + 1) = "]"
                  THEN <<CollapseWhitespace(strip(replace(SubSeq(rest, 1, q - 1), "\\n", " ")))>>
                           \o extract_message_list(SubSeq(rest, q + 2, Len(rest)))
                  ELSE extract_message_list(Tail(block))
         ELSE extract_message_list(Tail(block))

\* the body of the loop with the index taken modulo the number of categories
assign_block_Wrapping(messages, idx, block) ==
    DictPut(messages, category_names[(idx % Len(category_names)) + 1],
            extract_message_list(block))

\* lines 187-189: the body of the loop over enumerate(blocks)
assign_block(messages, idx, block) ==
    IF idx < Len(category_names)
    THEN DictPut(messages, category_names[idx + 1], extract_message_list(block))
    ELSE messages

MaxBlocks == 8

\* blocks of one message, of two messages, and of none
BlockChoices == {"[\"Miss.\"]", "[\"A\\nB\"] [\"C  D\"]", "[\"\"] x"}

InitMelee ==
    /\ mel_blocks \in SeqsUpTo(BlockChoices, MaxBlocks)
    /\ mel_idx = 0
    /\ mel_messages = empty_messages
    /\ mel_pc = "zip"
    /\ IdleTok /\ IdleExits /\ IdleRecords /\ IdleClassify /\ IdleNormalize /\ IdleRuns
    /\ IdleSources /\ IdleIndex

\* one iteration of the loop of lines 187-189
AssignBlock ==
    /\ mel_pc = "zip"
    /\ mel_idx < Len(mel_blocks)
    /\ mel_messages' = assign_block(mel_messages, mel_idx, mel_blocks[mel_idx + 1])
    /\ mel_idx' = mel_idx + 1
    /\ UNCHANGED <<mel_blocks, mel_pc, tokVars, exitVars, recVars, clVars, normVars,
                   runVars, srcVars, idxVars>>

\* line 191: return messages
MeleeReturn ==
    /\ mel_pc = "zip"
    /\ mel_idx = Len(mel_blocks)
    /\ mel_pc' = "returned"
    /\ UNCHANGED <<mel_blocks, mel_idx, mel_messages, tokVars, exitVars, recVars, clVars,
                   normVars, runVars, srcVars, idxVars>>

NextMelee == AssignBlock \/ MeleeReturn

SpecMelee == InitMelee /\ [][NextMelee]_vars

-----------------------------------------------------------------------------
(* C1: the blocks a depth-counting scan finds *)

\* The top-level blocks of s by depth counting: an open marker at depth 0
\* starts a block, every open marker raises the depth, every close marker
\* lowers it, and the block ends where the depth returns to 0.  The result is
\* <<blocks, final depth>>.
RECURSIVE DepthScan(_, _, _, _, _)
DepthScan(s, k, depth, cur, out) ==
    IF k >= Len(s) THEN <<out, depth>>
    ELSE IF At2(s, k) = "![" THEN
        DepthScan(s, k + 2, depth + 1, IF depth = 0 THEN "" ELSE cur \o "![", out)
    ELSE IF depth > 0 /\ At2(s, k) \in Closers THEN
        IF depth = 1 THEN DepthScan(s, k + 2, 0, "", Append(out, cur))
        ELSE DepthScan(s, k + 2, depth - 1, cur \o At2(s, k), out)
    ELSE DepthScan(s, k + 1, depth, IF depth > 0 THEN cur \o CharAt(s, k) ELSE cur, out)

OutermostBlocks(s) == DepthScan(s, 0, 0, "", <<>>)[1]

HasThreeTopLevelBlocks(s) ==
    /\ DepthScan(s, 0, 0, "", <<>>)[2] = 0
    /\ Len(OutermostBlocks(s)) = 3

\* C1: for every input of exactly three top-level blocks, whatever the nesting
\* inside each, the splitting loop returns exactly three blocks, each the
\* exact substring between its outermost matching open and close markers.
C1_TokenizerBalance ==
    (tok_pc = "done" /\ HasThreeTopLevelBlocks(melee_content))
        => blocks = OutermostBlocks(melee_content)

-----------------------------------------------------------------------------
(* Claims about the end of the splitting loop (SpecTok) *)

\* the 0-based places of the open markers of s
OpenPlaces(s) == {k \in 0..(Len(s) - 2) : Slice(s, k, k + 2) = "!["}

LastOpen(s) == CHOOSE k \in OpenPlaces(s) : \A m \in OpenPlaces(s) : m <= k

\* the text after the last open marker of s
AfterLastOpen(s) == Slice(s, LastOpen(s) + 2, Len(s))

\* s ends while a block is open: its last open marker has no later close
\* marker
EndsInOpenBlock(s) ==
    /\ OpenPlaces(s) # {}
    /\ ~contains(AfterLastOpen(s), "!]")
    /\ ~contains(AfterLastOpen(s), "]]")

\* the step that ends the loop
LoopEnds == tok_pc = "loop" /\ tok_pc' = "done"

\* C21 as stated: for every input that ends while a block is open, the
\* tokenizer emits the content accumulated since that open marker as a final
\* block.
C21_UnterminatedBlockEmitted ==
    [][(LoopEnds /\ EndsInOpenBlock(melee_content))
          => blocks' = Append(blocks, AfterLastOpen(melee_content))]_vars

\* C21 as amended: for every input that ends while a block is open, the
\* scanner is in a block at the end of the input and holds the text after
\* the last open marker; when that text is not empty it is emitted as the
\* final block, and when it is empty no block is emitted for it.
C21_UnterminatedContentFlushed ==
    [][(LoopEnds /\ EndsInOpenBlock(melee_content))
          => /\ in_block
             /\ current_block = AfterLastOpen(melee_content)
             /\ blocks' = IF AfterLastOpen(melee_content) # ""
                          THEN Append(blocks, AfterLastOpen(melee_content))
                          ELSE blocks]_vars

C21_Witness ==
    /\ tok_pc = "done"
    /\ EndsInOpenBlock(melee_content)
    /\ AfterLastOpen(melee_content) = "a!"
    /\ blocks = <<"a!">>

\* s with the close marker at the 0-based place k written in the other
\* spelling
OtherSpelling(s, k) ==
    Slice(s, 0, k) \o (IF At2(s, k) = "!]" THEN "]]" ELSE "!]") \o Slice(s, k + 2, Len(s))

\* the step that closes a block
BlockCloses == tok_pc = "loop" /\ in_block /\ ~in_block'

\* C22: for every input, replacing one close spelling by the other at a
\* place where it closes a block yields the same blocks and the same state
\* of the scanner.
C22_CloseMarkerEquivalence ==
    [][BlockCloses =>
          split_blocks(OtherSpelling(melee_content, i), 0, FALSE, "", <<>>)
              = split_blocks(melee_content, 0, FALSE, "", <<>>)]_vars

\* C22 where the character before the close marker is not a closing bracket
C22_ExceptAfterBracket ==
    [][(BlockCloses /\ (i = 0 \/ CharAt(melee_content, i - 1) # "]")) =>
          split_blocks(OtherSpelling(melee_content, i), 0, FALSE, "", <<>>)
              = split_blocks(melee_content, 0, FALSE, "", <<>>)]_vars

\* the messages the first category receives from the blocks of the content
FirstCategoryMessages ==
    IF blocks = <<>> THEN <<>>
    ELSE DictGet(assign_block(empty_messages, 0, blocks[1]), category_names[1])

\* C28: for a sub-block written as the open marker, message elements
\* ["m1"] ... ["mk"] and a close marker, the list extracted for its category
\* is [m1, ..., mk], whichever close spelling is used, also when the close
\* marker directly follows the last element.
C28_MessagesWhateverTheClose ==
    tok_pc = "done" =>
        \A e \in MessageElements, sep \in {"", " "}, cl \in Closers :
            melee_content = "![" \o e.text \o sep \o cl =>
                /\ Len(blocks) = 1
                /\ FirstCategoryMessages = e.msgs

\* C28 for the sub-blocks whose close marker is !] or follows a blank
C28_ExceptBracketsDirectlyAfter ==
    tok_pc = "done" =>
        \A e \in MessageElements, sep \in {"", " "}, cl \in Closers :
            (melee_content = "![" \o e.text \o sep \o cl /\ ~(sep = "" /\ cl = "]]")) =>
                /\ Len(blocks) = 1
                /\ FirstCategoryMessages = e.msgs

\* C30: on every finite input the splitting loop terminates: each iteration
\* advances the index by 1 or 2, the index never exceeds the length of the
\* input, and the loop ends with the index equal to that length.
C30_TokenizerTermination ==
    /\ [][(tok_pc = "loop" /\ tok_pc' = "loop") => (i' - i) \in {1, 2}]_vars
    /\ [](i <= Len(melee_content))
    /\ [](tok_pc = "done" => i = Len(melee_content))
    /\ <>(tok_pc = "done")

\* the loop has ended on an input that ends in an open marker after a lone !
C30_Witness ==
    /\ tok_pc = "done"
    /\ melee_content = "]!!["
    /\ i = 4
    /\ in_block

-----------------------------------------------------------------------------
(* Claims about the exit resolver (SpecExits) *)

\* the exit at index n of data_exits has been processed and no later
\* processed exit has overwritten its slot exits_by_room[source][direction]
IsLastForSlot(n) ==
    /\ n \in 1..exit_idx
    /\ \A l \in (n + 1)..exit_idx :
          ~(/\ data_exits[l].source = data_exits[n].source
            /\ convert_direction(data_exits[l].dir) = convert_direction(data_exits[n].dir))

EntryOf(n) ==
    DictGet(DictGet(exits_by_room, data_exits[n].source), convert_direction(data_exits[n].dir))

\* the target an entry carries: the `to` of a dict, or the plain string
TargetOf(entry) == IF "str" \in DOMAIN entry THEN entry.str ELSE entry.to

IsBlockedEntry(entry) ==
    /\ "blocked" \in DOMAIN entry
    /\ entry.blocked = TRUE
    /\ entry.to = None

IsDoorEntry(entry) == {"condition", "description", "locked"} \subseteq DOMAIN entry

IsConditionalEntry(entry) == "condition" \in DOMAIN entry

MatchingDoors(source, target) ==
    {n \in 1..Len(door_objects) : DoorMatches(door_objects[n].v, source, target)}

\* every order in which the door table could be iterated
TableOrders(table) ==
    {[n \in 1..Len(table) |-> table[p[n]]] : p \in Permutations(1..Len(table))}

\* C2: when more than one door's connection pair contains both endpoints of
\* an exit, the exit is not resolved by a door (a door resolves it only if
\* exactly one matches), and the resolution is the same for every iteration
\* order of the door table.
C2_AmbiguousDoorsNotFirstMatch ==
    exits_pc = "done" =>
        \A n \in 1..Len(data_exits) :
            (IsLastForSlot(n) /\ data_exits[n].target # "NoExit") =>
                LET e == data_exits[n]
                    direction == convert_direction(e.dir)
                IN  /\ IsDoorEntry(EntryOf(n)) =>
                            Cardinality(MatchingDoors(e.source, e.target)) = 1
                    /\ \A order \in TableOrders(door_objects) :
                            ExitEntry(order, conditional_exits, e.source, direction, e.target)
                                = EntryOf(n)

\* C8: an entry of the result of build_exits has a null target if and only
\* if the raw target of its exit was the sentinel NoExit, and every such entry
\* is marked blocked; no plain or conditional exit carries a null target.
C8_NoExitSentinel ==
    \A n \in 1..Len(data_exits) :
        IsLastForSlot(n) =>
            /\ (TargetOf(EntryOf(n)) = None) <=> (data_exits[n].target = "NoExit")
            /\ (TargetOf(EntryOf(n)) = None) => IsBlockedEntry(EntryOf(n))

\* C8 witness: build_exits has returned a table that holds a blocked entry
\* next to a conditional one and a plain one
C8_Witness ==
    /\ exits_pc = "done"
    /\ \E n \in 1..Len(data_exits) : IsLastForSlot(n) /\ IsBlockedEntry(EntryOf(n))
    /\ \E n \in 1..Len(data_exits) :
          \/ IsLastForSlot(n) /\ IsConditionalEntry(EntryOf(n))
          \/ IsLastForSlot(n) /\ "str" \in DOMAIN EntryOf(n)

\* C9: an exit whose direction has a blocked-direction (NEXIT) declaration
\* resolves to BLOCKED, also when its raw target is a room key.
C9_NexitDeclarationBlocks ==
    exits_pc = "done" =>
        \A n \in 1..Len(data_exits) :
            (/\ IsLastForSlot(n)
             /\ \E m \in 1..Len(nexit_matches) :
                    nexit_matches[m].direction = data_exits[n].dir)
                => IsBlockedEntry(EntryOf(n))

\* the messages declared by the door macros of one door name
DeclaredMessages(name) ==
    {door_macro_matches[m].message : m \in
        {l \in 1..Len(door_macro_matches) :
            /\ lower(door_macro_matches[l].name) = lower(name)
            /\ door_macro_matches[l].message # None}}

\* C10: if a door macro declares the pair (ROOM_A, ROOM_B) for door N and
\* ROOM_A has an exit whose raw target is ROOM_B, that exit resolves to a
\* conditional exit to the id of ROOM_B under the condition door_<n>_open,
\* with the door's declared message, or "The <N> is closed." if it has none
\* (the name of the default message is accepted in either case).
C10_DoorGatedExit ==
    exits_pc = "done" =>
        \A m \in 1..Len(door_macro_matches), n \in 1..Len(data_exits) :
            LET mac == door_macro_matches[m]
                e == data_exits[n]
            IN  (IsLastForSlot(n) /\ e.source = mac.room1 /\ e.target = mac.room2) =>
                    /\ IsConditionalEntry(EntryOf(n))
                    /\ EntryOf(n).to = convert_key_to_id(mac.room2)
                    /\ EntryOf(n).condition = "door_" \o lower(mac.name) \o "_open"
                    /\ IF DeclaredMessages(mac.name) # {}
                       THEN EntryOf(n).failureMessage \in DeclaredMessages(mac.name)
                       ELSE EntryOf(n).failureMessage \in
                                {"The " \o mac.name \o " is closed.",
                                 "The " \o lower(mac.name) \o " is closed."}

\* the declarations of conditional_exits whose destination is the target
MatchingFlags(target) ==
    {n \in 1..Len(conditional_exits) : conditional_exits[n].v.destination = target}

\* C11: an exit whose (source, target) is in a door's connection pair is
\* resolved by a door, with the condition door_<name>_open of a matching
\* door, also when a CEXIT declaration has its target as destination; an
\* exit is resolved by a CEXIT flag only when no door matches.
C11_DoorBeforeFlag ==
    \A n \in 1..Len(data_exits) :
        (IsLastForSlot(n) /\ data_exits[n].target # "NoExit") =>
            LET e == data_exits[n]
                matching == MatchingDoors(e.source, e.target)
            IN  /\ matching # {} =>
                        /\ IsDoorEntry(EntryOf(n))
                        /\ \E d \in matching :
                              EntryOf(n).condition = "door_" \o door_objects[d].k \o "_open"
                /\ (IsConditionalEntry(EntryOf(n)) /\ ~IsDoorEntry(EntryOf(n))) =>
                        /\ matching = {}
                        /\ \E f \in MatchingFlags(e.target) :
                              EntryOf(n).condition =
                                  replace(lower(conditional_exits[f].k), "-", "_")

\* build_exits has returned with an exit that a door and a CEXIT declaration
\* both match, stored as the door's conditional exit
C11_Witness ==
    /\ exits_pc = "done"
    /\ \E n \in 1..Len(data_exits) :
          /\ IsLastForSlot(n)
          /\ MatchingDoors(data_exits[n].source, data_exits[n].target) # {}
          /\ MatchingFlags(data_exits[n].target) # {}
          /\ IsDoorEntry(EntryOf(n))

\* C26: for every CEXIT declaration of the source, an exit whose raw target
\* is the declaration's destination and that matches no door resolves to a
\* conditional exit, also when several declarations use one flag name with
\* different destinations.
C26_CexitDeclarationsRetained ==
    exits_pc = "done" =>
        \A m \in 1..Len(cexit_matches), n \in 1..Len(data_exits) :
            (/\ IsLastForSlot(n)
             /\ data_exits[n].target = cexit_matches[m].destination
             /\ MatchingDoors(data_exits[n].source, data_exits[n].target) = {}) =>
                /\ IsConditionalEntry(EntryOf(n))
                /\ ~IsDoorEntry(EntryOf(n))

\* C26 for the sources in which no two CEXIT declarations have one flag name
C26_DistinctFlagsRetained ==
    (exits_pc = "done" /\ cexit_matches # SameFlagCexits) =>
        \A m \in 1..Len(cexit_matches), n \in 1..Len(data_exits) :
            (/\ IsLastForSlot(n)
             /\ data_exits[n].target = cexit_matches[m].destination
             /\ MatchingDoors(data_exits[n].source, data_exits[n].target) = {}) =>
                /\ IsConditionalEntry(EntryOf(n))
                /\ ~IsDoorEntry(EntryOf(n))

\* the messages of the blocked-direction declarations of one raw direction
DeclaredBlockedMessages(raw_direction) ==
    {nexit_matches[m].message : m \in
        {l \in 1..Len(nexit_matches) : nexit_matches[l].direction = raw_direction}}

\* the message C12 names for a blocked exit: the declared one, else the one
\* of the room and direction, else the generic one
BlockedMessageByPrecedence(source, raw_direction) ==
    LET direction == convert_direction(raw_direction)
    IN  IF DeclaredBlockedMessages(raw_direction) # {}
        THEN DeclaredBlockedMessages(raw_direction)
        ELSE IF DictHas(blocked_messages, source)
                /\ DictHas(DictGet(blocked_messages, source), direction)
        THEN {DictGet(DictGet(blocked_messages, source), direction)}
        ELSE {"You can't go " \o direction \o " from here."}

\* C12: every blocked exit carries a non-empty failure message: the message
\* of the blocked-direction declaration of its direction if one was
\* declared, else the fallback of its room and direction if there is one,
\* else the generic "can't go" fallback.
C12_BlockedMessagePrecedence ==
    \A n \in 1..Len(data_exits) :
        (IsLastForSlot(n) /\ data_exits[n].target = "NoExit") =>
            /\ EntryOf(n).failureMessage # ""
            /\ EntryOf(n).failureMessage \in
                    BlockedMessageByPrecedence(data_exits[n].source, data_exits[n].dir)

\* C12 for the exits whose converted direction is the lower-cased raw one
C12_ExceptRenamedDirections ==
    \A n \in 1..Len(data_exits) :
        (/\ IsLastForSlot(n) /\ data_exits[n].target = "NoExit"
         /\ convert_direction(data_exits[n].dir) = lower(data_exits[n].dir)) =>
            /\ EntryOf(n).failureMessage # ""
            /\ EntryOf(n).failureMessage \in
                    BlockedMessageByPrecedence(data_exits[n].source, data_exits[n].dir)

\* the key parse_conditional_exits stores a declaration of the raw direction
\* under (line 181), and the key get_blocked_exit_message looks up for an
\* exit of that raw direction (lines 333 and 385)
StoredNexitKey(raw_direction) == "NEXIT_" \o raw_direction
LookupNexitKey(raw_direction) == "NEXIT_" \o upper(convert_direction(raw_direction))

\* C27: for each of the twelve mapped raw directions D, if a blocked-
\* direction declaration was parsed under D, a NoExit exit whose raw
\* direction is D carries the message of that declaration: the key looked
\* up is the key stored.
C27_DeclaredMessageFound ==
    \A n \in 1..Len(data_exits) :
        (/\ IsLastForSlot(n) /\ data_exits[n].target = "NoExit"
         /\ DictHas(direction_mapping, data_exits[n].dir)
         /\ DeclaredBlockedMessages(data_exits[n].dir) # {}) =>
            /\ LookupNexitKey(data_exits[n].dir) = StoredNexitKey(data_exits[n].dir)
            /\ EntryOf(n).failureMessage \in DeclaredBlockedMessages(data_exits[n].dir)

\* the mapped raw directions whose lookup key is not the stored key
MismatchedDirections ==
    {direction_mapping[n].k : n \in
        {m \in 1..Len(direction_mapping) :
            LookupNexitKey(direction_mapping[m].k) # StoredNexitKey(direction_mapping[m].k)}}

\* C27 holds of ten of the twelve directions: the two keys differ for ENTER
\* and EXIT only
C27_OnlyEnterAndExitMismatch ==
    /\ MismatchedDirections = {"ENTER", "EXIT"}
    /\ \A n \in 1..Len(data_exits) :
          (/\ IsLastForSlot(n) /\ data_exits[n].target = "NoExit"
           /\ data_exits[n].dir \notin MismatchedDirections
           /\ DeclaredBlockedMessages(data_exits[n].dir) # {}) =>
              EntryOf(n).failureMessage \in DeclaredBlockedMessages(data_exits[n].dir)

-----------------------------------------------------------------------------
(* Claims about the identifier normalizer (SpecNormalize) *)

\* lower case, with every space and hyphen turned into the separator
Transliterate(key) ==
    MapString(key, [c \in DOMAIN ToLower \cup {" ", "-"} |->
                        IF c \in {" ", "-"} THEN "_" ELSE ToLower[c]])

HasFamilyPrefix(key) ==
    startswith(key, "MAZE") \/ startswith(key, "MAZ") \/ startswith(key, "DEAD")

\* the id by the order of C13: the table, else the family format, else the
\* generic rule
IdByTableFirst(key) ==
    IF \E n \in 1..Len(room_id_conversions) : room_id_conversions[n].k = key
    THEN room_id_conversions[CHOOSE n \in 1..Len(room_id_conversions) :
                                 room_id_conversions[n].k = key].v
    ELSE IF startswith(key, "MAZE") THEN "maze_" \o SubSeq(key, 5, Len(key))
    ELSE IF startswith(key, "MAZ") THEN "maze_" \o SubSeq(key, 4, Len(key))
    ELSE IF startswith(key, "DEAD") THEN "dead_end_" \o SubSeq(key, 5, Len(key))
    ELSE Transliterate(key)

\* C13: for every key, every call of convert_key_to_id returns the value of
\* the explicit table when the key is in it, otherwise the maze_<n> or
\* dead_end_<n> format when the key has that prefix, otherwise the generic
\* transliteration.  (The code tests the prefixes before the table; no key
\* of the table has such a prefix, so the two orders give the same ids.)
C13_ResolutionOrder ==
    /\ \A n \in 1..Len(scene_ids) : scene_ids[n] = IdByTableFirst(norm_key)
    /\ \A n \in 1..Len(room_id_conversions) : ~HasFamilyPrefix(room_id_conversions[n].k)

\* keys of the table, of both spellings of the maze family and of the
\* dead-end family have been normalized
C13_Witness ==
    /\ Len(scene_ids) >= 1
    /\ \/ norm_key = "MGRAT" /\ scene_ids[1] = "grating_room"
       \/ norm_key = "MAZ10" /\ scene_ids[1] = "maze_10"

\* C14: the three derivations of an id from a key agree on every key, and
\* every call on a key returns the same id.
C14_SameKeySameId ==
    \A m, n \in 1..Len(scene_ids) :
        /\ scene_ids[m] = scene_ids[n]
        /\ scene_ids[m] = zork_ids[n]
        /\ scene_ids[m] = item_ids[n]

\* C15: a key that is not in the explicit table and has no family prefix
\* normalizes to its lower-cased form with every space and every hyphen
\* replaced by '_'.
C15_GenericFallback ==
    (~DictHas(room_id_conversions, norm_key) /\ ~HasFamilyPrefix(norm_key)) =>
        \A n \in 1..Len(scene_ids) : scene_ids[n] = Transliterate(norm_key)

\* keys with a space and with a hyphen have been normalized
C15_Witness ==
    /\ Len(scene_ids) >= 1
    /\ \/ norm_key = "Two Words" /\ scene_ids[1] = "two_words"
       \/ norm_key = "A-B" /\ scene_ids[1] = "a_b"

-----------------------------------------------------------------------------
(* Claims about independent runs (SpecRuns) *)

\* C16: two independent runs of the item extraction on the same input
\* produce identical records, field by field, the order of the elements of
\* the tags list included.
C16_RunDeterminism ==
    \A m, n \in 1..Len(run_files) : run_files[m] = run_files[n]

-----------------------------------------------------------------------------
(* Claims about unreadable sources (SpecSources) *)

\* C17: in every run whose source text cannot be read, no entity record and
\* no index is written, in the item run, the scene run and the monster run.
C17_UnreadableSourceAborts ==
    ~src_readable => src_written = <<>>

\* C17 for the item run alone
C17_ItemRunAborts ==
    (~src_readable /\ src_matches # <<>>) => (src_written = <<>> /\ src_pc \in {"items", "aborted"})

-----------------------------------------------------------------------------
(* Claims about the message table (SpecMelee) *)

\* C20: the blocks are assigned positionally to the seven categories: for
\* every number n of blocks, category c holds the messages of block c for
\* c < min(n, 7), the categories from n on are empty lists, the blocks from
\* the eighth on are discarded, the result has exactly the seven category
\* keys, and the loop ends for every block count.
C20_MessageTableZip ==
    /\ mel_pc \in {"zip", "returned"} =>
          /\ Len(mel_messages) = 7
          /\ \A c \in 1..7 : mel_messages[c].k = category_names[c]
          /\ mel_idx <= Len(mel_blocks)
    /\ mel_pc = "returned" =>
          \A c \in 1..7 :
              mel_messages[c].v = IF c <= Len(mel_blocks)
                                  THEN extract_message_list(mel_blocks[c])
                                  ELSE <<>>

C20_Witness ==
    /\ mel_pc = "returned"
    /\ Len(mel_blocks) = 8
    /\ mel_blocks[8] = "[\"A\\nB\"] [\"C  D\"]"
    /\ mel_messages[1].v = <<"Miss.">>
    /\ mel_messages[2].v = <<"A B", "C D">>
    /\ mel_messages[3].v = <<>>

\* C20 for fewer blocks than categories
C20_WitnessFewer ==
    /\ mel_pc = "returned"
    /\ Len(mel_blocks) = 2
    /\ mel_messages[2].v = <<"Miss.">>
    /\ mel_messages[3].v = <<>>

-----------------------------------------------------------------------------
(* Claims about the record loops *)

\* a piece between two quotes of the name list that is a name
HasNameMatch(match) ==
    \E k \in 1..Len(split(match.names_str, "\"")) :
        strip(split(match.names_str, "\"")[k]) # ""

\* C18: parse_objects emits exactly one object per match whose name list
\* yields a name, in source order; a match whose name list yields no name
\* emits nothing and leaves the parsing of the other definitions as it is.
C18_NamelessSkippedLocally ==
    rec_pc \notin {"construct", "scenes", "monsters"} =>
        LET named == SelectSeq(object_matches, HasNameMatch)
        IN  /\ Len(objects) = Len(named)
            /\ \A n \in 1..Len(named) :
                  /\ objects[n].names # <<>>
                  /\ objects[n] = ParseObject(<<>>, named[n])[1]

C18_Witness ==
    /\ rec_pc = "items"
    /\ Len(object_matches) = 2
    /\ ~HasNameMatch(object_matches[1])
    /\ HasNameMatch(object_matches[2])
    /\ Len(objects) = 1
    /\ objects[1].primary_name = "SWORD"

\* C19: an object definition with a valid name list and an empty body is
\* dropped: no object and no record is emitted for it.
C19_EmptyBodyDropped ==
    /\ rec_pc \notin {"construct", "scenes", "monsters"} =>
          \A n \in 1..Len(objects) : objects[n].raw_definition # ""
    /\ (rec_pc = "done" /\ \A n \in 1..Len(object_matches) :
                              strip(object_matches[n].definition) = "") =>
          item_files = <<>>


Ids(files) == [n \in 1..Len(files) |-> files[n].v.id]

\* C3: whenever two distinct legacy keys (room keys, or the primary names of
\* two object definitions) normalize to the same id, neither record is
\* overwritten by the other: a finished run holds one record for each
\* distinct legacy key it processed.  (The extractors have no channel that
\* reports a collision.)
C3_NoSilentIdCollision ==
    rec_pc = "done" =>
        /\ Len(scene_files) = Cardinality({data_rooms[n].key : n \in 1..Len(data_rooms)})
        /\ Len(item_files) = Cardinality({objects[n].names[1] : n \in 1..Len(objects)})

AllIdsDistinct(files) ==
    /\ \A n \in 1..Len(files) : files[n].v.id # ""
    /\ \A m, n \in 1..Len(files) : m # n => files[m].v.id # files[n].v.id

Punctuation == {"<", "+", ",", ">"}

RECURSIVE StripPunctuation(_)
StripPunctuation(word) ==
    IF word = "" THEN ""
    ELSE IF Head(word) \in Punctuation THEN StripPunctuation(Tail(word))
    ELSE IF SubSeq(word, Len(word), Len(word)) \in Punctuation
    THEN StripPunctuation(SubSeq(word, 1, Len(word) - 1))
    ELSE word

Words(text) ==
    {StripPunctuation(split(text, " ")[n]) : n \in 1..Len(split(text, " "))} \ {""}

BodyLinesOf(definition) ==
    {split(definition, "\n")[n] : n \in 1..Len(split(definition, "\n"))}

\* the tokens inside the `<+ ...>` lists of a body, and those outside them
ListTokens(definition) ==
    UNION {Words(Combination(line)) : line \in {l \in BodyLinesOf(definition) : HasCombination(l)}}

StandaloneTokens(definition) ==
    UNION {IF HasCombination(line) THEN Words(replace(line, Combination(line), ""))
           ELSE Words(line) : line \in BodyLinesOf(definition)}

Count(x, seq) == Cardinality({n \in DOMAIN seq : seq[n] = x})

TableEntries == {flag_table[n] : n \in 1..Len(flag_table)}

\* the dictionary entries whose spelling is in a combination list of the body
\* and is a standalone token of it as well
TwiceSpelled(definition) ==
    LET twice == ListTokens(definition) \cap StandaloneTokens(definition)
    IN  {e \in TableEntries : e.k \in twice}

\* C5: for every object body in which the same legacy flag occurs both
\* inside a combination list and as a standalone token, the flag list that
\* parse_objects builds holds the canonical tag of that flag exactly once.
C5_FlagIdempotence ==
    \A n \in 1..Len(objects) :
        \A e \in TwiceSpelled(objects[n].raw_definition) :
            Count(e.v, objects[n].flags) = 1

\* C5, as the code has it: for every such body, the tags of the item record
\* that convert_to_item_json builds hold the canonical tag, in lower case,
\* exactly once.
C5_TagsIdempotent ==
    (rec_pc = "done" /\ Len(objects) = 1 /\ Len(item_files) = 1) =>
        \A e \in TwiceSpelled(objects[1].raw_definition) :
            Count(lower(e.v), item_files[1].v.tags) = 1

\* a finished run whose flag list holds PORTABLE twice, from a combination
\* list and from a standalone token of another line
C5_Witness ==
    /\ rec_pc = "done"
    /\ Len(objects) = 1
    /\ objects[1].raw_definition = "<+ ,TAKEBIT>\nTAKEBIT"
    /\ Count("PORTABLE", objects[1].flags) = 2
    /\ item_files[1].v.tags = <<"portable">>

TagsOf(tokens) == {e.v : e \in {d \in TableEntries : d.k \in tokens}}

\* C6: the flags of an object are tags that the dictionary names for tokens
\* of its body, a token contributes no tag of another spelling, a token
\* that is not in the dictionary contributes none, and every token of a
\* combination list contributes its tag.
C6_FlagDictionary ==
    \A n \in 1..Len(objects) :
        LET definition == objects[n].raw_definition
            flags == {objects[n].flags[m] : m \in 1..Len(objects[n].flags)}
        IN  /\ flags \subseteq TagsOf(ListTokens(definition) \cup StandaloneTokens(definition))
            /\ TagsOf(ListTokens(definition)) \subseteq flags

\* C25: the flag set of an object is the union, over its body lines, of the
\* tags of the recognized flags inside combination lists and of the
\* recognized standalone tokens, also of those that stand on the line of a
\* combination list or of another standalone token.
C25_FlagUnion ==
    \A n \in 1..Len(objects) :
        LET definition == objects[n].raw_definition
        IN  {objects[n].flags[m] : m \in 1..Len(objects[n].flags)}
                = TagsOf(ListTokens(definition) \cup StandaloneTokens(definition))

\* C25 for the bodies whose tokens are spellings that hold no other spelling
\* of the dictionary
C25_FlagUnionOfPlainSpellings ==
    \A n \in 1..Len(objects) :
        LET definition == objects[n].raw_definition
            tokens == ListTokens(definition) \cup StandaloneTokens(definition)
        IN  tokens \subseteq {"OVISON", "TAKEBIT", "XYZBIT"} =>
                {objects[n].flags[m] : m \in 1..Len(objects[n].flags)} = TagsOf(tokens)

\* an id of the maze or dead-end family
IsFamilyId(id) == startswith(id, "maze_") \/ startswith(id, "dead_end_")

\* C29: if convert_key_to_id places a room key in the maze or dead-end
\* family, determine_region returns 'maze' for that key, also for the keys
\* with the MAZ prefix that are not in the region lists.
C29_RegionAgreesWithIdFamily ==
    \A n \in 1..Len(scene_files) :
        IsFamilyId(scene_files[n].v.id) => scene_files[n].v.region = "maze"

\* C29 for the keys that are in the region lists or hold MAZE or DEAD
C29_ListedOrSpelledOut ==
    \A n \in 1..rec_idx :
        (/\ rec_pc \in {"scenes", "done"} /\ data_rooms # <<>>
         /\ IsFamilyId(convert_key_to_id(data_rooms[n].key))
         /\ \/ MappedRegion(data_rooms[n].key, region_mapping) # None
            \/ contains(data_rooms[n].key, "MAZE")
            \/ contains(data_rooms[n].key, "DEAD")) =>
            determine_region(data_rooms[n].key) = "maze"

\* the number of type lists of the index that hold the monster
TypeListsHolding(monster_id) ==
    Cardinality({n \in 1..Len(monster_index.types) :
                    InSeq(monster_id, monster_index.types[n].v)})

\* C24: a monster whose flags contain VILLAIN is humanoid (also with VICBIT),
\* else one whose flags contain VICBIT is a creature, else it is
\* environmental; the nine built-in monsters give what the verifier expects:
\* 5 humanoid (thief, troll, cyclops, gnome_of_zurich, guardian_of_zork),
\* 2 creature (ghost, volcano_gnome), 2 environmental (grue, vampire_bat),
\* each monster in exactly one type list of the index.
C24_MonsterArchetype ==
    rec_pc = "written" =>
        /\ DictKeys(monsters) = DictKeys(expected_monsters)
        /\ \A n \in 1..Len(monsters) :
              /\ monsters[n].v.type = DictGet(expected_monsters, monsters[n].k)
              /\ TypeListsHolding(monsters[n].k) = 1
              /\ InSeq(monsters[n].k, DictGet(monster_index.types, monsters[n].v.type))
        /\ \A n \in 1..Len(expected_types) :
              Len(DictGet(monster_index.types, expected_types[n].k)) = expected_types[n].v
        /\ DictGet(monster_index.types, "humanoid")
              = <<"thief", "troll", "cyclops", "gnome_of_zurich", "guardian_of_zork">>
        /\ DictGet(monster_index.types, "creature") = <<"ghost", "volcano_gnome">>
        /\ DictGet(monster_index.types, "environmental") = <<"grue", "vampire_bat">>

\* the thief, whose flags hold VICBIT and VILLAIN, is in the humanoid list
C24_Witness ==
    /\ rec_pc = "written"
    /\ InSeq("VICBIT", DictGet(monsters, "thief").flags)
    /\ InSeq("VILLAIN", DictGet(monsters, "thief").flags)
    /\ InSeq("thief", DictGet(monster_index.types, "humanoid"))
    /\ monster_index.total = 9

-----------------------------------------------------------------------------
(* Claims about the item classifier *)

\* the rules of the classifier, in their order, as a condition and a category
RuleHolds(rule, flags, properties) ==
    LET has(tag) == \E n \in 1..Len(flags) : flags[n] = tag
    IN  CASE rule = 1 -> "value" \in DictKeys(properties) /\ "treasurePoints" \in DictKeys(properties)
          [] rule = 2 -> has("FOOD") \/ has("DRINK")
          [] rule = 3 -> has("WEAPON")
          [] rule = 4 -> has("CONTAINER") \/ has("OPENABLE")
          [] rule = 5 -> has("LIGHT_SOURCE")
          [] rule = 6 -> has("TOOL")
          [] rule = 7 -> has("TREASURE")
          [] rule = 8 -> TRUE

RuleCategory == <<"TREASURE", "FOOD", "WEAPON", "CONTAINER", "LIGHT_SOURCE", "TOOL",
                  "TREASURE", "TOOL">>

FirstRule(flags, properties) ==
    CHOOSE rule \in 1..8 :
        /\ RuleHolds(rule, flags, properties)
        /\ \A earlier \in 1..(rule - 1) : ~RuleHolds(earlier, flags, properties)

\* C7: determine_item_type returns, for every flag list and property map,
\* the category of the first rule that matches, in the order value pair,
\* FOOD or DRINK, WEAPON, CONTAINER or OPENABLE, LIGHT_SOURCE, TOOL,
\* TREASURE flag, and TOOL otherwise.
C7_ClassifierPrecedence ==
    cl_pc = "done" => cl_type = RuleCategory[FirstRule(cl_flags, cl_properties)]

\* the flags CONTAINER and WEAPON without the value pair were classified WEAPON
C7_Witness ==
    /\ cl_pc = "done"
    /\ cl_flags = <<"CONTAINER", "WEAPON">>
    /\ cl_properties = <<>>
    /\ cl_type = "WEAPON"

\* the size the record is built from: properties.get('size', 5)
NumericSize == DictGetOr(cl_properties, "size", 5)

SizeRank == [TINY |-> 1, SMALL |-> 2, MEDIUM |-> 3, LARGE |-> 4, HUGE |-> 5]

\* C23: convert_size maps n to TINY if n <= 5, SMALL if 6 <= n <= 10, MEDIUM
\* if 11 <= n <= 20, LARGE if 21 <= n <= 40, HUGE if n >= 41, and it is
\* monotone in n.
C23_SizeClassification ==
    cl_pc = "done" =>
        /\ (NumericSize <= 5) = (cl_size = "TINY")
        /\ (NumericSize \in 6..10) = (cl_size = "SMALL")
        /\ (NumericSize \in 11..20) = (cl_size = "MEDIUM")
        /\ (NumericSize \in 21..40) = (cl_size = "LARGE")
        /\ (NumericSize >= 41) = (cl_size = "HUGE")
        /\ \A m \in 0..NumericSize : SizeRank[convert_size(m)] <= SizeRank[cl_size]

\* the size 41 was classified HUGE
C23_Witness ==
    /\ cl_pc = "done"
    /\ NumericSize = 41
    /\ cl_size = "HUGE"

=============================================================================
